---- MODULE Spec2Model ----
(***************************************************************************)
(* Model of the Creator identity resolver of HallOfFameServer              *)
(* (projects/server/services/creator.service.ts).                          *)
(*                                                                         *)
(* Strings are sequences of one-character strings.  The JavaScript value   *)
(* null (and undefined, for optional inputs) is the one-element sequence   *)
(* Null, whose element is not a character, so that `=' on two string       *)
(* values is the comparison the code makes with == and !=.                 *)
(***************************************************************************)
EXTENDS Integers, Sequences, FiniteSets, TLC

Null == <<"null">>

\* ------------------------------------------------------------------------
\* String primitives (ECMAScript String.prototype)
\* ------------------------------------------------------------------------

\* The \s class of a RegExp, and the characters String.prototype.trim strips.
IsSpace(c) == c \in {" ", "\t"}

\* String.prototype.toLowerCase, on one character.
LowerChar(c) ==
    CASE c = "A" -> "a" [] c = "B" -> "b" [] c = "C" -> "c"
      [] c = "D" -> "d" [] c = "E" -> "e" [] c = "F" -> "f"
      [] OTHER -> c

ToLowerCase(s) == [i \in 1..Len(s) |-> LowerChar(s[i])]

RECURSIVE TrimStart(_)
TrimStart(s) ==
    IF s = <<>> THEN <<>>
    ELSE IF IsSpace(Head(s)) THEN TrimStart(Tail(s)) ELSE s

RECURSIVE TrimEnd(_)
TrimEnd(s) ==
    IF s = <<>> THEN <<>>
    ELSE IF IsSpace(s[Len(s)]) THEN TrimEnd(SubSeq(s, 1, Len(s) - 1)) ELSE s

\* String.prototype.trim
Trim(s) == TrimEnd(TrimStart(s))

\* `!name?.trim()': null, undefined, empty and whitespace-only are all blank.
IsBlank(s) == s = Null \/ Trim(s) = <<>>

\* JavaScript truthiness of a `string | null' value.
Truthy(s) == s # Null /\ s # <<>>

\* s.replaceAll(c, '') for a one-character pattern.
RECURSIVE RemoveChar(_, _)
RemoveChar(s, c) ==
    IF s = <<>> THEN <<>>
    ELSE IF Head(s) = c THEN RemoveChar(Tail(s), c)
    ELSE <<Head(s)>> \o RemoveChar(Tail(s), c)

\* s.replaceAll(pat, '') for a non-empty pattern pat.
RECURSIVE RemoveAll(_, _)
RemoveAll(s, pat) ==
    IF Len(s) < Len(pat) THEN s
    ELSE IF SubSeq(s, 1, Len(pat)) = pat
         THEN RemoveAll(SubSeq(s, Len(pat) + 1, Len(s)), pat)
         ELSE <<Head(s)>> \o RemoveAll(Tail(s), pat)

\* s.replace(/\s+/g, ' '): every maximal run of whitespace becomes one space.
RECURSIVE CollapseSpaces(_)
CollapseSpaces(s) ==
    IF s = <<>> THEN <<>>
    ELSE IF IsSpace(Head(s))
         THEN <<" ">> \o CollapseSpaces(TrimStart(s))
         ELSE <<Head(s)>> \o CollapseSpaces(Tail(s))

RECURSIVE DropHyphens(_)
DropHyphens(s) ==
    IF s = <<>> THEN <<>>
    ELSE IF Head(s) = "-" THEN DropHyphens(Tail(s)) ELSE s

\* s.replace(/\s+|-+/g, '-'): a maximal run of whitespace, or a maximal run
\* of hyphens, becomes one hyphen; the two alternatives never join.
RECURSIVE ReplaceRuns(_)
ReplaceRuns(s) ==
    IF s = <<>> THEN <<>>
    ELSE IF IsSpace(Head(s)) THEN <<"-">> \o ReplaceRuns(TrimStart(s))
    ELSE IF Head(s) = "-" THEN <<"-">> \o ReplaceRuns(DropHyphens(s))
    ELSE <<Head(s)>> \o ReplaceRuns(Tail(s))

RECURSIVE DropHyphensEnd(_)
DropHyphensEnd(s) ==
    IF s = <<>> THEN <<>>
    ELSE IF s[Len(s)] = "-" THEN DropHyphensEnd(SubSeq(s, 1, Len(s) - 1))
    ELSE s

\* s.replace(/^-+|-+$/g, '')
StripHyphens(s) == DropHyphensEnd(DropHyphens(s))

\* The three characters U+00E2 U+20AC U+2122 (a mis-encoded right single
\* quotation mark) that the source strips besides "'"; each is written here
\* by its code point.
CurlyApostrophe == <<"U+00E2", "U+20AC", "U+2122">>

\* CreatorService.getCreatorNameSlug
getCreatorNameSlug(name) ==
    IF IsBlank(name) THEN Null
    ELSE ToLowerCase(StripHyphens(ReplaceRuns(
             RemoveAll(RemoveChar(name, "'"), CurlyApostrophe))))

\* ------------------------------------------------------------------------
\* Creator Name validation
\* ------------------------------------------------------------------------

MaxCreatorNameLength == 25

\* Mutant of CreatorNameTooLong: the length is taken after the whitespace
\* runs are collapsed.
CreatorNameTooLongCollapsed(name) ==
    ~IsBlank(name) /\ Len(CollapseSpaces(name)) > MaxCreatorNameLength

\* validateCreatorName throws InvalidCreatorNameError exactly when this holds.
CreatorNameTooLong(name) == ~IsBlank(name) /\ Len(name) > MaxCreatorNameLength

\* CreatorService.validateCreatorName, where it does not throw.
validateCreatorName(name) ==
    IF IsBlank(name) THEN Null ELSE CollapseSpaces(name)

\* ------------------------------------------------------------------------
\* UUIDs
\* ------------------------------------------------------------------------

UuidCompactLength == 32

HexLower == {"0", "1", "2", "3", "4", "5", "6", "7", "8", "9",
             "a", "b", "c", "d", "e", "f"}

IsHex(c) == LowerChar(c) \in HexLower

\* uuid.validate: the library's pattern, matched case-insensitively
\*   xxxxxxxx-xxxx-[1-8]xxx-[89ab]xxx-xxxxxxxxxxxx, or the nil or max UUID.
UuidValidate(s) ==
    /\ s # Null
    /\ Len(s) = 36
    /\ \A i \in 1..36 :
          IF i \in {9, 14, 19, 24} THEN s[i] = "-" ELSE IsHex(s[i])
    /\ \/ /\ s[15] \in {"1", "2", "3", "4", "5", "6", "7", "8"}
          /\ LowerChar(s[20]) \in {"8", "9", "a", "b"}
       \/ \A i \in (1..36) \ {9, 14, 19, 24} : s[i] = "0"
       \/ \A i \in (1..36) \ {9, 14, 19, 24} : LowerChar(s[i]) = "f"

\* uuid.version: the version digit, as a character.
UuidVersion(s) == s[15]

\* CreatorService.ensureValidCreatorId does not throw.
IsValidCreatorId(creatorId) ==
    UuidValidate(creatorId) /\ UuidVersion(creatorId) = "4"

\* The re-hyphenation of MinecraftAuthService.normalizeUuid (8-4-4-4-12).
Hyphenate(compact) ==
    SubSeq(compact, 1, 8) \o <<"-">> \o SubSeq(compact, 9, 12) \o <<"-">> \o
    SubSeq(compact, 13, 16) \o <<"-">> \o SubSeq(compact, 17, 20) \o <<"-">> \o
    SubSeq(compact, 21, Len(compact))

\* Mutant of Compact: the letters keep their case.
CompactKeepCase(input) == RemoveChar(input, "-")

\* input.replaceAll('-', '').toLowerCase()
Compact(input) == ToLowerCase(RemoveChar(input, "-"))

\* MinecraftAuthService.normalizeUuid throws MinecraftAuthInvalidUuidError.
NormalizeUuidFails(input) ==
    \/ Len(Compact(input)) # UuidCompactLength
    \/ ~UuidValidate(Hyphenate(Compact(input)))

\* MinecraftAuthService.normalizeUuid, where it does not throw.
normalizeUuid(input) == Hyphenate(Compact(input))


\* ------------------------------------------------------------------------
\* Minecraft profile service (MinecraftAuthService.verifyOfficialAccount)
\* ------------------------------------------------------------------------

\* An HTTP exchange with the profile service: fetch throws ("network"), or a
\* status arrives with a body that is not JSON ("text"), JSON that is not an
\* object carrying a string id ("json_other"), or a profile object ("json").
HttpResponse(kind, status, id, name) ==
    [kind |-> kind, status |-> status, id |-> id, name |-> name]

\* MinecraftAuthService.verifyOfficialAccount on one exchange: the profile,
\* or the MinecraftAuthError subclass it throws.
verifyOfficialAccount(response) ==
    LET Fail(e) == [ok |-> FALSE, error |-> e, uuid |-> Null, username |-> Null]
    IN  IF response.kind = "network" THEN Fail("MinecraftAuthRequestError")
        ELSE IF response.status \in {401, 403}
             THEN Fail("MinecraftAuthInvalidAccessTokenError")
        ELSE IF response.status < 200 \/ response.status > 299
             THEN Fail("MinecraftAuthRequestError")
        ELSE IF response.kind # "json"
             THEN Fail("MinecraftAuthMalformedResponseError")
        ELSE IF response.id = Null \/ response.id = <<>>
             THEN Fail("MinecraftAuthMalformedResponseError")
        ELSE IF NormalizeUuidFails(response.id)
             THEN Fail("MinecraftAuthInvalidUuidError")
        ELSE [ok |-> TRUE, error |-> "none",
              uuid |-> normalizeUuid(response.id),
              username |-> IF response.name # Null /\ Trim(response.name) # <<>>
                           THEN Trim(response.name) ELSE Null]

\* ------------------------------------------------------------------------
\* Inputs
\* ------------------------------------------------------------------------

\* A lower-case compact UUID made of the hex digit c, version digit v.
CompactUuid(c, v) ==
    [i \in 1..UuidCompactLength |->
        IF i = 13 THEN v ELSE IF i = 17 THEN "8" ELSE c]

CreatorIdX == Hyphenate(CompactUuid("a", "4"))
CreatorIdY == Hyphenate(CompactUuid("b", "4"))
CreatorIdZ == Hyphenate(CompactUuid("d", "4"))
CreatorIdBad == <<"z">>

\* The Minecraft account of the model, in its canonical spelling, and the two
\* spellings a client or the profile service may send.
McUuid == Hyphenate(CompactUuid("c", "4"))
McUuidBareUpper == [i \in 1..UuidCompactLength |->
                       IF i = 13 THEN "4" ELSE IF i = 17 THEN "8" ELSE "C"]
McUuidBad == <<"c", "c">>

NameA == <<"a">>
\* " a  b": a leading space and a run of two spaces.
NameAB == <<" ", "a", " ", " ", "b">>
NameBlank == <<" ">>
\* 26 characters: "a" followed by 25 spaces; its slug is "a".
NameLong == [i \in 1..(MaxCreatorNameLength + 1) |-> IF i = 1 THEN "a" ELSE " "]
\* 26 spaces.
NameBlankLong == [i \in 1..(MaxCreatorNameLength + 1) |-> " "]

TokenGood == <<"t", "1">>
TokenExpired == <<"t", "2">>
TokenBlank == <<" ">>
TokenForbidden == <<"t", "3">>
TokenNetwork == <<"t", "4">>
TokenServerError == <<"t", "5">>
TokenText == <<"t", "6">>
TokenJsonOther == <<"t", "7">>
TokenNoId == <<"t", "8">>
TokenEmptyId == <<"t", "9">>
TokenBadId == <<"t", "a">>
TokenNoName == <<"t", "b">>
TokenFault == <<"t", "c">>

\* What the profile service answers to each bearer token.
ProfileService(token) ==
    CASE token = TokenGood ->
             HttpResponse("json", 200, McUuidBareUpper, <<"a", " ">>)
      [] token = TokenForbidden -> HttpResponse("json", 403, Null, Null)
      [] token = TokenNetwork -> HttpResponse("network", 0, Null, Null)
      [] token = TokenServerError -> HttpResponse("json", 500, McUuid, NameA)
      [] token = TokenText -> HttpResponse("text", 200, Null, Null)
      [] token = TokenJsonOther -> HttpResponse("json_other", 200, Null, Null)
      [] token = TokenNoId -> HttpResponse("json", 200, Null, NameA)
      [] token = TokenEmptyId -> HttpResponse("json", 200, <<>>, NameA)
      [] token = TokenBadId -> HttpResponse("json", 200, McUuidBad, NameA)
      [] token = TokenNoName -> HttpResponse("json", 204, McUuid, Null)
      [] OTHER -> HttpResponse("json", 401, Null, Null)

\* The subclasses of MinecraftAuthError.
MinecraftAuthErrors ==
    {"MinecraftAuthRequestError", "MinecraftAuthInvalidAccessTokenError",
     "MinecraftAuthMalformedResponseError", "MinecraftAuthInvalidUuidError"}

\* `await this.minecraftAuth.verifyOfficialAccount({accessToken})': the
\* profile, or the error the call rejects with.  For one token the call
\* fails at run time with an error that is no MinecraftAuthError.
VerifyToken(token) ==
    IF token = TokenFault
    THEN [ok |-> FALSE, error |-> "RangeError", uuid |-> Null, username |-> Null]
    ELSE verifyOfficialAccount(ProfileService(token))

\* Mutant of OfficialError: the error of the verifier is thrown as it is.
OfficialErrorUnwrapped(error) == error

\* The catch clause around verifyOfficialAccount: the error it throws.
OfficialError(error) ==
    IF error \in MinecraftAuthErrors
    THEN "MinecraftOfficialAuthenticationError" ELSE error

ModAuthorization(provider, creatorId, creatorName, hwid, ip, token, playerUuid) ==
    [kind |-> "mod", creatorIdProvider |-> provider, creatorId |-> creatorId,
     creatorName |-> creatorName, hwid |-> hwid, ip |-> ip,
     minecraftAccessToken |-> token, minecraftPlayerUuid |-> playerUuid]

SimpleAuthorization(creatorId, ip) ==
    [kind |-> "simple", creatorIdProvider |-> "none", creatorId |-> creatorId,
     creatorName |-> Null, hwid |-> "none", ip |-> ip,
     minecraftAccessToken |-> Null, minecraftPlayerUuid |-> Null]

\* The authorizations clients send.  Paradox accounts claim either Creator
\* ID with every name from the usual device and address, and the second
\* Creator ID also from a new device or a new address; the other providers
\* claim the first Creator ID, and the official provider also a Creator ID
\* that is no UUID.  One paradox account claims a third Creator ID with the
\* first name, and one offline account sends a name along with its UUID.
ModAuthorizations ==
    {ModAuthorization("paradox", c, n, "hw1", "ip1", Null, Null) :
        c \in {CreatorIdX, CreatorIdY},
        n \in {Null, NameA, NameAB, NameBlank, NameLong}}
    \cup
    {ModAuthorization("paradox", CreatorIdY, NameA, h, i, Null, Null) :
        h \in {"hw1", "hw4"}, i \in {"ip1", "ip4"}}
    \cup
    {ModAuthorization("minecraft_offline", CreatorIdX, Null, "hw1", "ip1", Null, u) :
        u \in {Null, McUuidBad, McUuid, McUuidBareUpper}}
    \cup
    {ModAuthorization("minecraft_official", CreatorIdX, n, "hw1", "ip1", t, Null) :
        n \in {Null, NameAB}, t \in {TokenGood, TokenExpired}}
    \cup
    {ModAuthorization("minecraft_official", CreatorIdX, Null, "hw1", "ip1", TokenBlank, Null),
     ModAuthorization("minecraft_official", CreatorIdBad, Null, "hw1", "ip1", TokenGood, Null),
     ModAuthorization("paradox", CreatorIdY, NameBlankLong, "hw1", "ip1", Null, Null),
     ModAuthorization("paradox", CreatorIdZ, NameA, "hw1", "ip1", Null, Null),
     ModAuthorization("minecraft_offline", CreatorIdX, NameAB, "hw1", "ip1", Null, McUuid),
     ModAuthorization("paradox", CreatorIdBad, Null, "hw1", "ip1", Null, Null),
     ModAuthorization("local", CreatorIdY, NameA, "hw1", "ip1", Null, Null),
     ModAuthorization("steam", CreatorIdY, NameA, "hw1", "ip1", Null, Null)}

SimpleAuthorizations ==
    {SimpleAuthorization(c, i) : c \in {CreatorIdX, CreatorIdY}, i \in {"ip1", "ip4"}}
    \cup {SimpleAuthorization(CreatorIdBad, "ip1"),
          SimpleAuthorization(CreatorIdY, "ip5")}

\* ------------------------------------------------------------------------
\* The Creator table
\* ------------------------------------------------------------------------

MaxHistory == 3

Creator(id, creatorId, provider, name, slug, playerUuid, reset, hwids, ips) ==
    [id |-> id, creatorId |-> creatorId, creatorIdProvider |-> provider,
     creatorName |-> name, creatorNameSlug |-> slug,
     minecraftPlayerUuid |-> playerUuid, allowCreatorIdReset |-> reset,
     hwids |-> hwids, ips |-> ips]

\* `undefined' where the code expects a Creator (creators[0] of an empty list).
NoCreator == Creator(0, Null, "none", Null, Null, Null, FALSE, <<>>, <<>>)

\* Array.from(new Set(list)): the first occurrence of every value, in order.
RECURSIVE Unique(_)
Unique(list) ==
    IF list = <<>> THEN <<>>
    ELSE <<Head(list)>> \o
         Unique(SelectSeq(Tail(list), LAMBDA x : x # Head(list)))

\* list.slice(0, n)
Slice(list, n) == SubSeq(list, 1, IF Len(list) < n THEN Len(list) ELSE n)

\* Mutant of MergeHistory: the new value is prepended without the Set, so a
\* later occurrence of it stays in the history.
MergeHistoryNoDedupe(value, history) == Slice(<<value>> \o history, MaxHistory)

\* Array.from(new Set([value, ...history])).slice(0, 3)
MergeHistory(value, history) == Slice(Unique(<<value>> \o history), MaxHistory)

\* Mutant of CreatorIdTaken: the index is consulted by inserts only.
CreatorIdTakenOnInsert(table, creatorId, except) ==
    /\ except = 0
    /\ \E i \in DOMAIN table : table[i].creatorId = creatorId

\* The unique index on Creator.creatorId: a row with this creatorId exists
\* besides the row `except' (0 for an insert).
CreatorIdTaken(table, creatorId, except) ==
    \E i \in DOMAIN table : i # except /\ table[i].creatorId = creatorId

\* ------------------------------------------------------------------------
\* authenticateCreatorForModUnsafe, between two awaits
\* ------------------------------------------------------------------------

\* The locals of authenticateCreatorForModUnsafe after the provider switch,
\* or the error it threw; verified and normalized tell whether the switch
\* called verifyOfficialAccount, and normalizeUuid on the claimed UUID.
Claim(error, detail, creatorId, name, playerUuid) ==
    [error |-> error, detail |-> detail, effectiveCreatorId |-> creatorId,
     effectiveCreatorName |-> name, effectiveMinecraftPlayerUuid |-> playerUuid,
     creatorNameSlug |-> getCreatorNameSlug(name),
     verified |-> FALSE, normalized |-> FALSE]

\* The locals of a handler that has not run the provider switch.
NoClaim == Claim("unresolved", Null, Null, Null, Null)

\* Mutant of ResolveProvider: the official provider calls the profile
\* service before it looks at the access token.
ResolveProviderVerifyFirst(auth) ==
    LET Reject(e, d) == Claim(e, d, auth.creatorId, auth.creatorName, Null)
    IN  CASE auth.creatorIdProvider = "minecraft_official" ->
               LET profile ==
                       VerifyToken(auth.minecraftAccessToken)
               IN  IF IsBlank(auth.minecraftAccessToken)
                   THEN [Reject("MissingMinecraftOfficialAccessTokenError", Null)
                            EXCEPT !.verified = TRUE]
                   ELSE IF ~profile.ok
                   THEN [Reject(OfficialError(profile.error), Null)
                            EXCEPT !.verified = TRUE]
                   ELSE [Claim("none", Null, profile.uuid,
                               IF ~Truthy(auth.creatorName) /\ Truthy(profile.username)
                               THEN profile.username ELSE auth.creatorName,
                               profile.uuid)
                            EXCEPT !.verified = TRUE]
          [] auth.creatorIdProvider = "minecraft_offline" ->
               IF IsBlank(auth.minecraftPlayerUuid)
               THEN Reject("MissingMinecraftOfflinePlayerUuidError", Null)
               ELSE IF NormalizeUuidFails(auth.minecraftPlayerUuid)
               THEN [Reject("InvalidMinecraftPlayerUuidError", auth.minecraftPlayerUuid)
                        EXCEPT !.normalized = TRUE]
               ELSE [Claim("none", Null, auth.creatorId, auth.creatorName,
                           normalizeUuid(auth.minecraftPlayerUuid))
                        EXCEPT !.normalized = TRUE]
          [] auth.creatorIdProvider \in {"paradox", "local"} ->
               Claim("none", Null, auth.creatorId, auth.creatorName, Null)
          [] OTHER ->
               Reject("UnsupportedCreatorIdProviderError", auth.creatorIdProvider)

\* Mutant of ResolveProvider: the official provider keeps the Creator ID the
\* client sent.
ResolveProviderRawId(auth) ==
    LET Reject(e, d) == Claim(e, d, auth.creatorId, auth.creatorName, Null)
    IN  CASE auth.creatorIdProvider = "minecraft_official" ->
               IF IsBlank(auth.minecraftAccessToken)
               THEN Reject("MissingMinecraftOfficialAccessTokenError", Null)
               ELSE LET profile ==
                        VerifyToken(auth.minecraftAccessToken)
                    IN  IF ~profile.ok
                        THEN [Reject(OfficialError(profile.error), Null)
                                 EXCEPT !.verified = TRUE]
                        ELSE [Claim("none", Null, auth.creatorId,
                                    IF ~Truthy(auth.creatorName) /\ Truthy(profile.username)
                                    THEN profile.username ELSE auth.creatorName,
                                    profile.uuid)
                                 EXCEPT !.verified = TRUE]
          [] auth.creatorIdProvider = "minecraft_offline" ->
               IF IsBlank(auth.minecraftPlayerUuid)
               THEN Reject("MissingMinecraftOfflinePlayerUuidError", Null)
               ELSE IF NormalizeUuidFails(auth.minecraftPlayerUuid)
               THEN [Reject("InvalidMinecraftPlayerUuidError", auth.minecraftPlayerUuid)
                        EXCEPT !.normalized = TRUE]
               ELSE [Claim("none", Null, auth.creatorId, auth.creatorName,
                           normalizeUuid(auth.minecraftPlayerUuid))
                        EXCEPT !.normalized = TRUE]
          [] auth.creatorIdProvider \in {"paradox", "local"} ->
               Claim("none", Null, auth.creatorId, auth.creatorName, Null)
          [] OTHER ->
               Reject("UnsupportedCreatorIdProviderError", auth.creatorIdProvider)

\* The provider switch: the effective Creator ID, Creator Name and Minecraft
\* player UUID of an authorization, or the error the switch throws.
ResolveProvider(auth) ==
    LET Reject(e, d) == Claim(e, d, auth.creatorId, auth.creatorName, Null)
    IN  CASE auth.creatorIdProvider = "minecraft_official" ->
               IF IsBlank(auth.minecraftAccessToken)
               THEN Reject("MissingMinecraftOfficialAccessTokenError", Null)
               ELSE LET profile ==
                        VerifyToken(auth.minecraftAccessToken)
                    IN  IF ~profile.ok
                        THEN [Reject(OfficialError(profile.error), Null)
                                 EXCEPT !.verified = TRUE]
                        ELSE [Claim("none", Null, profile.uuid,
                                    IF ~Truthy(auth.creatorName) /\ Truthy(profile.username)
                                    THEN profile.username ELSE auth.creatorName,
                                    profile.uuid)
                                 EXCEPT !.verified = TRUE]
          [] auth.creatorIdProvider = "minecraft_offline" ->
               IF IsBlank(auth.minecraftPlayerUuid)
               THEN Reject("MissingMinecraftOfflinePlayerUuidError", Null)
               ELSE IF NormalizeUuidFails(auth.minecraftPlayerUuid)
               THEN [Reject("InvalidMinecraftPlayerUuidError", auth.minecraftPlayerUuid)
                        EXCEPT !.normalized = TRUE]
               ELSE [Claim("none", Null, auth.creatorId, auth.creatorName,
                           normalizeUuid(auth.minecraftPlayerUuid))
                        EXCEPT !.normalized = TRUE]
          [] auth.creatorIdProvider \in {"paradox", "local"} ->
               Claim("none", Null, auth.creatorId, auth.creatorName, Null)
          [] OTHER ->
               Reject("UnsupportedCreatorIdProviderError", auth.creatorIdProvider)

\* The provider switch followed by ensureValidCreatorId(effectiveCreatorId).
ResolveClaim(auth) ==
    LET claim == ResolveProvider(auth)
    IN  IF claim.error = "none" /\ ~IsValidCreatorId(claim.effectiveCreatorId)
        THEN [claim EXCEPT !.error = "InvalidCreatorIdError",
                           !.detail = claim.effectiveCreatorId]
        ELSE claim

\* prisma.creator.findMany over the OR of the search conditions: the ids of
\* the rows that match.  A condition on a null value matches the null column.
FindMany(table, claim) ==
    {i \in DOMAIN table :
        \/ table[i].creatorId = claim.effectiveCreatorId
        \/ /\ Truthy(claim.effectiveCreatorName)
           /\ \/ table[i].creatorName = claim.effectiveCreatorName
              \/ table[i].creatorNameSlug = claim.creatorNameSlug
        \/ /\ Truthy(claim.effectiveMinecraftPlayerUuid)
           /\ table[i].minecraftPlayerUuid = claim.effectiveMinecraftPlayerUuid}

\* The `data' of prisma.creator.create, as the row it inserts with id `id'.
CreateData(id, claim, auth) ==
    Creator(id, claim.effectiveCreatorId, auth.creatorIdProvider,
            validateCreatorName(claim.effectiveCreatorName),
            claim.creatorNameSlug, claim.effectiveMinecraftPlayerUuid,
            FALSE, <<auth.hwid>>, <<auth.ip>>)

\* Mutant of CreatorIdMismatch: allowCreatorIdReset is not consulted.
CreatorIdMismatchIgnoringReset(creator, claim) ==
    /\ creator.creatorId # claim.effectiveCreatorId
    /\ ~(/\ Truthy(claim.effectiveMinecraftPlayerUuid)
         /\ creator.minecraftPlayerUuid = claim.effectiveMinecraftPlayerUuid)

\* updateCreator: the Creator ID check fails.
CreatorIdMismatch(creator, claim) ==
    LET isSameMinecraftPlayer ==
            /\ Truthy(claim.effectiveMinecraftPlayerUuid)
            /\ creator.minecraftPlayerUuid = claim.effectiveMinecraftPlayerUuid
    IN  /\ creator.creatorId # claim.effectiveCreatorId
        /\ ~creator.allowCreatorIdReset
        /\ ~isSameMinecraftPlayer

\* Mutant of Modified: the histories are compared whole, not by their head.
ModifiedWholeHistory(creator, claim, auth) ==
    \/ creator.creatorName # claim.effectiveCreatorName
    \/ creator.creatorNameSlug # claim.creatorNameSlug
    \/ creator.hwids # <<auth.hwid>>
    \/ creator.ips # <<auth.ip>>
    \/ creator.creatorId # claim.effectiveCreatorId
    \/ creator.minecraftPlayerUuid # claim.effectiveMinecraftPlayerUuid
    \/ creator.creatorIdProvider # auth.creatorIdProvider

\* updateCreator: `modified'.
Modified(creator, claim, auth) ==
    \/ creator.creatorName # claim.effectiveCreatorName
    \/ creator.creatorNameSlug # claim.creatorNameSlug
    \/ creator.hwids[1] # auth.hwid
    \/ creator.ips[1] # auth.ip
    \/ creator.creatorId # claim.effectiveCreatorId
    \/ creator.minecraftPlayerUuid # claim.effectiveMinecraftPlayerUuid
    \/ creator.creatorIdProvider # auth.creatorIdProvider

\* Mutant of UpdateNameInvalid: the Creator Name is validated whether it
\* changed or not.
UpdateNameInvalidAlways(creator, claim) ==
    CreatorNameTooLong(claim.effectiveCreatorName)

\* updateCreator: the Creator Name is validated, and validation throws.
UpdateNameInvalid(creator, claim) ==
    /\ creator.creatorName # claim.effectiveCreatorName
    /\ CreatorNameTooLong(claim.effectiveCreatorName)

\* Mutant of UpdateData: a changed Creator Name is stored as received.
UpdateDataRawName(creator, claim, auth) ==
    Creator(creator.id, claim.effectiveCreatorId, auth.creatorIdProvider,
            claim.effectiveCreatorName,
            claim.creatorNameSlug, claim.effectiveMinecraftPlayerUuid, FALSE,
            MergeHistory(auth.hwid, creator.hwids),
            MergeHistory(auth.ip, creator.ips))

\* Mutant of UpdateData: a claim without a Minecraft UUID keeps the link the
\* account has.
UpdateDataKeepLink(creator, claim, auth) ==
    Creator(creator.id, claim.effectiveCreatorId, auth.creatorIdProvider,
            IF creator.creatorName = claim.effectiveCreatorName
            THEN claim.effectiveCreatorName
            ELSE validateCreatorName(claim.effectiveCreatorName),
            claim.creatorNameSlug,
            IF claim.effectiveMinecraftPlayerUuid = Null
            THEN creator.minecraftPlayerUuid
            ELSE claim.effectiveMinecraftPlayerUuid,
            FALSE,
            MergeHistory(auth.hwid, creator.hwids),
            MergeHistory(auth.ip, creator.ips))

\* The `data' of prisma.creator.update in updateCreator, as the row it
\* leaves, computed from the Creator that was read.
UpdateData(creator, claim, auth) ==
    Creator(creator.id, claim.effectiveCreatorId, auth.creatorIdProvider,
            IF creator.creatorName = claim.effectiveCreatorName
            THEN claim.effectiveCreatorName
            ELSE validateCreatorName(claim.effectiveCreatorName),
            claim.creatorNameSlug, claim.effectiveMinecraftPlayerUuid, FALSE,
            MergeHistory(auth.hwid, creator.hwids),
            MergeHistory(auth.ip, creator.ips))


\* ------------------------------------------------------------------------
\* Creator Name translation (updateCreatorNameTranslation)
\* ------------------------------------------------------------------------

\* The translation columns of a Creator row.
Translation(needs, locale, latinized, translated) ==
    [needsTranslation |-> needs, creatorNameLocale |-> locale,
     creatorNameLatinized |-> latinized, creatorNameTranslated |-> translated]

\* The columns of a row that prisma.creator.create was given no value for.
DefaultTranslation == Translation(TRUE, Null, Null, Null)

\* Mutant of ClearedTranslation: the row stays marked as needing
\* translation.
ClearedTranslationStillNeeded == Translation(TRUE, Null, Null, Null)

\* The `data' of the update for a name that is not translated.
ClearedTranslation == Translation(FALSE, Null, Null, Null)

\* AiTranslatorService.isEligibleForTranslation is outside the source; here
\* it accepts the names that contain the letter "b".
isEligibleForTranslation(name) == \E k \in DOMAIN name : name[k] = "b"

\* AiTranslatorService.translateCreatorName, where it does not throw: the
\* locale code, the transliteration and the translation of `input'.
translateCreatorName(input) ==
    [twoLetterLocaleCode |-> <<"x", "x">>,
     transliteration |-> <<"l">> \o input,
     translation |-> <<"t">> \o input]

\* The `data' of the update that follows a translation.
TranslatedTranslation(result) ==
    Translation(FALSE, result.twoLetterLocaleCode, result.transliteration,
                result.translation)

\* The n-th call of updateCreatorNameTranslation(creator), run to its first
\* await: the update that clears the columns ("clear"), or the translator
\* ("translate"); after the translator it awaits its update ("write").  A
\* call that has ended ("done") keeps its result: what it returned
\* ("translated", "not_translated"), or what rejected its promise
\* ("translator_error", "store_error").
RefreshTask(n, creator) ==
    [n |-> n, id |-> creator.id, creatorName |-> creator.creatorName,
     pc |-> IF Truthy(creator.creatorName)
               /\ isEligibleForTranslation(creator.creatorName)
            THEN "translate" ELSE "clear",
     result |-> "none"]

\* ------------------------------------------------------------------------
\* State
\* ------------------------------------------------------------------------

\* Requests the server handles at the same time, and in total; and in total
\* where the translation refreshes run next to them.
Procs == {1, 2}
MaxRequests == 3
MaxRefreshRequests == 2

VARIABLES
    store,       \* the Creator table: row i has id i
    translation, \* the translation columns of the Creator table, by row
    req,         \* per request slot: the position and locals of the handler
    started,     \* number of requests received so far
    tasks,       \* the calls of updateCreatorNameTranslation so far
    call         \* a call of a pure function: its input and its result

vars == <<store, translation, req, started, tasks, call>>

\* No pure function is being called on its own.
NoCall == [op |-> "none"]

\* A request slot.  pc is the await the handler is suspended at; found and
\* creator are the rows the current run of authenticateCreatorForModUnsafe
\* read (`creators' and `creators[0]'); data is the row of the write it is
\* about to send; status, error, detail and returned are the outcome.
\* claim holds the locals of the current run after the provider switch.
\* queries, writes, inserts, spawned, conflicts and overlapped record what
\* happened during the request: queries executed, rows written, rows
\* inserted, translation refreshes spawned, the writes the store rejected
\* with P2002 (in order), and whether another request took a step while this
\* one was in progress.
Request(pc, auth) ==
    [pc |-> pc, auth |-> auth, attempt |-> 1, claim |-> NoClaim, found |-> {},
     creator |-> NoCreator, data |-> NoCreator, status |-> "pending",
     error |-> "none", detail |-> Null, returned |-> NoCreator,
     queries |-> 0, writes |-> 0, inserts |-> 0, spawned |-> 0,
     conflicts |-> <<>>, overlapped |-> FALSE]

Idle == Request("idle", SimpleAuthorization(Null, "none"))

\* A Creator registered earlier through the mod, with full histories; an
\* administrator may have set allowCreatorIdReset, and the account may be
\* linked to the Minecraft account.
EarlierCreator(reset, linked) ==
    Creator(1, CreatorIdY, IF linked THEN "minecraft_offline" ELSE "local",
            NameA, getCreatorNameSlug(NameA), IF linked THEN McUuid ELSE Null,
            reset, <<"hw1", "hw2", "hw3">>, <<"ip1", "ip2", "ip3">>)

InitialStores ==
    {<<>>} \cup {<<EarlierCreator(r, l)>> : r \in BOOLEAN, l \in BOOLEAN}

\* The name of every Creator registered earlier has been through
\* updateCreatorNameTranslation.
Init ==
    /\ store \in InitialStores
    /\ translation = [i \in DOMAIN store |-> ClearedTranslation]
    /\ req = [p \in Procs |-> Idle]
    /\ started = 0
    /\ tasks = {}
    /\ call = NoCall

\* ------------------------------------------------------------------------
\* Outcomes of a handler
\* ------------------------------------------------------------------------

\* The handler throws.
Throw(r, error, detail) ==
    [r EXCEPT !.pc = "done", !.status = "error", !.error = error,
              !.detail = detail, !.data = NoCreator]

\* The handler returns a Creator.
Return(r, creator) ==
    [r EXCEPT !.pc = "done", !.status = "ok", !.returned = creator,
              !.data = NoCreator]

\* Mutant of UniqueViolation: the P2002 error is thrown without a second run.
UniqueViolationNoRetry(r) == Throw(r, "P2002", Null)

\* authenticateCreatorForMod: a write of authenticateCreatorForModUnsafe
\* threw a Prisma error with code P2002.  The first run is followed by a
\* second one; the second run's error is thrown.
UniqueViolation(r) ==
    IF r.attempt = 1
    THEN [r EXCEPT !.pc = "mod_query", !.attempt = 2, !.claim = NoClaim,
                   !.found = {}, !.creator = NoCreator, !.data = NoCreator]
    ELSE Throw(r, "P2002", Null)

\* ------------------------------------------------------------------------
\* Actions
\* ------------------------------------------------------------------------

\* updateCreator up to its await: the Creator ID check, change detection and
\* the evaluation of the update's data.
UpdateCreatorSync(r, claim) ==
    IF CreatorIdMismatch(r.creator, claim)
    THEN IF ~Truthy(r.creator.creatorName)
         THEN Throw(r, "AssertionError", Null)
         ELSE Throw(r, "IncorrectCreatorIdError", r.creator.creatorName)
    ELSE IF ~Modified(r.creator, claim, r.auth)
    THEN Return(r, r.creator)
    ELSE IF UpdateNameInvalid(r.creator, claim)
    THEN Throw(r, "InvalidCreatorNameError", claim.effectiveCreatorName)
    ELSE [r EXCEPT !.pc = "mod_update",
                   !.data = UpdateData(r.creator, claim, r.auth)]

\* createCreator up to its await: the evaluation of the insert's data.
CreateCreatorSync(r, claim) ==
    IF CreatorNameTooLong(claim.effectiveCreatorName)
    THEN Throw(r, "InvalidCreatorNameError", claim.effectiveCreatorName)
    ELSE [r EXCEPT !.pc = "mod_create", !.data = CreateData(0, claim, r.auth)]

\* One run of authenticateCreatorForModUnsafe from its start, through
\* findMany on `table', to the next await (the insert or the update) or to
\* its end.
RunUnsafe(r, table) ==
    LET claim == ResolveClaim(r.auth)
        found == FindMany(table, claim)
        read == [r EXCEPT !.claim = claim,
                          !.queries = @ + 1,
                          !.found = {table[i] : i \in found},
                          !.creator = IF Cardinality(found) = 1
                                      THEN table[CHOOSE i \in found : TRUE]
                                      ELSE NoCreator]
    IN  IF claim.error # "none"
        THEN Throw([r EXCEPT !.claim = claim], claim.error, claim.detail)
        ELSE IF Cardinality(found) > 1
        THEN IF Cardinality(found) # 2 \/ ~Truthy(claim.effectiveCreatorName)
             THEN Throw(read, "AssertionError", Null)
             ELSE Throw(read, "IncorrectCreatorIdError", claim.effectiveCreatorName)
        ELSE IF Cardinality(found) = 1
        THEN UpdateCreatorSync(read, claim)
        ELSE CreateCreatorSync(read, claim)

\* Mutant of RunSimple: ensureValidCreatorId is not called.
RunSimpleUnvalidated(r, table) ==
    LET found == {i \in DOMAIN table : table[i].creatorId = r.auth.creatorId}
    IN  IF found = {}
        THEN Throw([r EXCEPT !.queries = @ + 1], "CreatorNotFoundError", Null)
        ELSE LET creator == table[CHOOSE i \in found : TRUE]
                 read == [r EXCEPT !.queries = @ + 1,
                                   !.found = {creator}, !.creator = creator]
             IN  IF creator.ips[1] # r.auth.ip
                 THEN [read EXCEPT
                         !.pc = "simple_update",
                         !.data = [creator EXCEPT
                             !.ips = MergeHistory(r.auth.ip, creator.ips)]]
                 ELSE Return(read, creator)

\* authenticateCreatorSimple (after ensureValidCreatorId) through findUnique
\* on `table', to the await of the update or to its end.
RunSimple(r, table) ==
    LET found == {i \in DOMAIN table : table[i].creatorId = r.auth.creatorId}
    IN  IF ~IsValidCreatorId(r.auth.creatorId)
        THEN Throw(r, "InvalidCreatorIdError", r.auth.creatorId)
        ELSE IF found = {}
        THEN Throw([r EXCEPT !.queries = @ + 1], "CreatorNotFoundError", Null)
        ELSE LET creator == table[CHOOSE i \in found : TRUE]
                 read == [r EXCEPT !.queries = @ + 1,
                                   !.found = {creator}, !.creator = creator]
             IN  IF creator.ips[1] # r.auth.ip
                 THEN [read EXCEPT
                         !.pc = "simple_update",
                         !.data = [creator EXCEPT
                             !.ips = MergeHistory(r.auth.ip, creator.ips)]]
                 ELSE Return(read, creator)

Busy(p) == req[p].pc \notin {"idle", "done"}

\* The slots after slot p's handler moved to `next': every other request in
\* progress has now seen another request take a step.
Step(p, next) ==
    [q \in Procs |->
        IF q = p THEN next
        ELSE IF Busy(q) THEN [req[q] EXCEPT !.overlapped = TRUE]
        ELSE req[q]]

\* A request is received by the lowest free slot (slots are interchangeable).
CanStart(p) ==
    /\ ~Busy(p)
    /\ \A q \in Procs : q < p => Busy(q)
    /\ started < MaxRequests
    /\ UNCHANGED <<store, translation, tasks, call>>

\* authenticateCreator({kind: 'mod', ...}) is called: the first run of
\* authenticateCreatorForModUnsafe reads the table.  The time at which the
\* table is read is the time this action is taken.
StartMod(p) ==
    /\ CanStart(p)
    /\ \E auth \in ModAuthorizations :
          req' = Step(p, RunUnsafe(Request("mod_query", auth), store))
    /\ started' = started + 1

\* authenticateCreator({kind: 'simple', ...}) is called.
StartSimple(p) ==
    /\ CanStart(p)
    /\ \E auth \in SimpleAuthorizations :
          req' = Step(p, RunSimple(Request("simple_query", auth), store))
    /\ started' = started + 1

\* A request is received while translation refreshes run.
StartModRefresh(p) == started < MaxRefreshRequests /\ StartMod(p)

StartSimpleRefresh(p) == started < MaxRefreshRequests /\ StartSimple(p)

\* The second run of authenticateCreatorForModUnsafe reads the table.
ModRetry(p) ==
    /\ req[p].pc = "mod_query"
    /\ req' = Step(p, RunUnsafe(req[p], store))
    /\ UNCHANGED <<store, translation, started, tasks, call>>

\* backgroundUpdateCreatorNameTranslation(creator): the calls of
\* updateCreatorNameTranslation with one more.
Spawn(creator) == tasks \cup {RefreshTask(Cardinality(tasks) + 1, creator)}

\* Mutant of NameChanged: every update is followed by a refresh.
NameChangedAlways(updatedCreator, creator) == TRUE

\* updateCreator: the test that guards the refresh after the update.
NameChanged(updatedCreator, creator) ==
    updatedCreator.creatorName # creator.creatorName

\* prisma.creator.create executes, and createCreator runs to its end.
ModCreate(p) ==
    /\ req[p].pc = "mod_create"
    /\ LET r == req[p]
           row == [r.data EXCEPT !.id = Len(store) + 1]
       IN  IF CreatorIdTaken(store, r.data.creatorId, 0)
           THEN /\ req' = Step(p, UniqueViolation(
                               [r EXCEPT !.conflicts = Append(@, "insert")]))
                /\ UNCHANGED <<store, translation, tasks>>
           ELSE /\ store' = Append(store, row)
                /\ translation' = Append(translation, DefaultTranslation)
                /\ tasks' = Spawn(row)
                /\ req' = Step(p,
                      Return([r EXCEPT !.writes = @ + 1, !.inserts = @ + 1,
                                       !.spawned = @ + 1], row))
    /\ UNCHANGED <<started, call>>

\* prisma.creator.update executes, and updateCreator runs to its end.
ModUpdate(p) ==
    /\ req[p].pc = "mod_update"
    /\ LET r == req[p]
           id == r.creator.id
       IN  IF CreatorIdTaken(store, r.data.creatorId, id)
           THEN /\ req' = Step(p, UniqueViolation(
                               [r EXCEPT !.conflicts = Append(@, "update")]))
                /\ UNCHANGED <<store, tasks>>
           ELSE /\ store' = [store EXCEPT ![id] = r.data]
                /\ tasks' = IF NameChanged(r.data, r.creator)
                            THEN Spawn(r.data) ELSE tasks
                /\ req' = Step(p,
                      Return([r EXCEPT !.writes = @ + 1,
                                       !.spawned =
                                           IF NameChanged(r.data, r.creator)
                                           THEN @ + 1 ELSE @],
                             r.data))
    /\ UNCHANGED <<translation, started, call>>

\* Mutant of SimpleUpdateRow: the update sends every column it read.
SimpleUpdateWholeRow(row, data) == data

\* Mutant of SimpleUpdateRow: the update also clears allowCreatorIdReset.
SimpleUpdateClearsFlag(row, data) ==
    [row EXCEPT !.ips = data.ips, !.allowCreatorIdReset = FALSE]

\* The row that the update of authenticateCreatorSimple leaves: `data' names
\* the column ips only.
SimpleUpdateRow(row, data) == [row EXCEPT !.ips = data.ips]

\* prisma.creator.update of authenticateCreatorSimple executes.
SimpleUpdate(p) ==
    /\ req[p].pc = "simple_update"
    /\ LET r == req[p]
           id == r.creator.id
           row == SimpleUpdateRow(store[id], r.data)
       IN  /\ store' = [store EXCEPT ![id] = row]
           /\ req' = Step(p, Return([r EXCEPT !.writes = @ + 1], row))
    /\ UNCHANGED <<translation, started, tasks, call>>

\* The ids a row can have: one row registered earlier, one per request.
Ids == 1..(MaxRequests + 1)

\* The calls of updateCreatorNameTranslation for row id that await `pc'.
TasksAt(id, pc) == {t \in tasks : t.id = id /\ t.pc = pc}

\* The calls of updateCreatorNameTranslation after call t ended.
Ended(t, result) ==
    (tasks \ {t}) \cup {[t EXCEPT !.pc = "done", !.result = result]}

\* The update of a refresh whose name is not translated executes, and
\* updateCreatorNameTranslation returns {translated: false}.
RefreshClear(id) ==
    \E t \in TasksAt(id, "clear") :
        /\ translation' = [translation EXCEPT ![id] = ClearedTranslation]
        /\ tasks' = Ended(t, "not_translated")
        /\ UNCHANGED <<store, req, started, call>>

\* The translator returns its result, and the refresh sends its update.
RefreshTranslate(id) ==
    \E t \in TasksAt(id, "translate") :
        /\ tasks' = (tasks \ {t}) \cup {[t EXCEPT !.pc = "write"]}
        /\ UNCHANGED <<store, translation, req, started, call>>

\* The update of a translated name executes, and
\* updateCreatorNameTranslation returns {translated: true}.
RefreshWrite(id) ==
    \E t \in TasksAt(id, "write") :
        /\ translation' = [translation EXCEPT ![id] =
                TranslatedTranslation(translateCreatorName(t.creatorName))]
        /\ tasks' = Ended(t, "translated")
        /\ UNCHANGED <<store, req, started, call>>

\* Mutant of RefreshFail: the error reaches the request that spawned the
\* refresh.
RefreshFailSurfaces(id) ==
    \E t \in tasks :
        /\ t.id = id /\ t.pc # "done"
        /\ tasks' = Ended(t, IF t.pc = "translate" THEN "translator_error"
                             ELSE "store_error")
        /\ req' = [p \in Procs |->
                      IF req[p].pc = "done" /\ req[p].status = "ok"
                         /\ req[p].returned.id = id
                      THEN Throw(req[p], "TranslationError", Null)
                      ELSE req[p]]
        /\ UNCHANGED <<store, translation, started, call>>

\* The call the refresh awaits (the translator or the store) throws: the
\* promise of updateCreatorNameTranslation rejects, and the catch handler of
\* backgroundUpdateCreatorNameTranslation logs and reports the error.
RefreshFail(id) ==
    \E t \in tasks :
        /\ t.id = id /\ t.pc # "done"
        /\ tasks' = Ended(t, IF t.pc = "translate" THEN "translator_error"
                             ELSE "store_error")
        /\ UNCHANGED <<store, translation, req, started, call>>

\* The requests; the translation refreshes they spawn stay pending.  A
\* refresh writes the translation columns of its row only, which no request
\* reads, so that the requests behave the same whether it runs or not.
Next ==
    \E p \in Procs :
        \/ StartMod(p)
        \/ StartSimple(p)
        \/ ModRetry(p)
        \/ ModCreate(p)
        \/ ModUpdate(p)
        \/ SimpleUpdate(p)

Spec == Init /\ [][Next]_vars

\* The requests together with the translation refreshes they spawn.
NextRefresh ==
    \/ \E p \in Procs :
        \/ StartModRefresh(p)
        \/ StartSimpleRefresh(p)
        \/ ModRetry(p)
        \/ ModCreate(p)
        \/ ModUpdate(p)
        \/ SimpleUpdate(p)
    \/ \E id \in Ids :
        \/ RefreshClear(id)
        \/ RefreshTranslate(id)
        \/ RefreshWrite(id)
        \/ RefreshFail(id)

SpecRefresh == Init /\ [][NextRefresh]_vars

\* A Creator registered before Creator Names were validated as they are
\* now: its name has 26 characters and ends in whitespace.
LegacyCreator(reset) ==
    Creator(1, CreatorIdY, "local", NameLong, getCreatorNameSlug(NameLong),
            Null, reset, <<"hw1", "hw2", "hw3">>, <<"ip1", "ip2", "ip3">>)

InitLegacy ==
    /\ store \in {<<LegacyCreator(r)>> : r \in BOOLEAN}
    /\ translation = [i \in DOMAIN store |-> ClearedTranslation]
    /\ req = [p \in Procs |-> Idle]
    /\ started = 0
    /\ tasks = {}
    /\ call = NoCall

\* The requests, on a table that holds a legacy Creator Name.
SpecLegacy == InitLegacy /\ [][Next]_vars

\* ------------------------------------------------------------------------
\* The pure functions, called on their own
\* ------------------------------------------------------------------------

\* No request is in progress and the table is empty.
Quiet ==
    /\ store = <<>>
    /\ translation = <<>>
    /\ req = [p \in Procs |-> Idle]
    /\ started = 0
    /\ tasks = {}

\* Names of at most MaxSlugInput characters over SlugAlphabet, the names
\* that hold the three-character quotation mark, a tab, and null.
SlugAlphabet == {"a", "B", " ", "-", "'"}
MaxSlugInput == 4

SlugInputs ==
    UNION {[1..k -> SlugAlphabet] : k \in 0..MaxSlugInput}
    \cup {Null, <<"\t">>, <<"a", "\t", "B">>,
          CurlyApostrophe, <<"a">> \o CurlyApostrophe \o <<"s">>,
          <<"a", "U+00E2", "'", "U+20AC", "U+2122">>}

InitSlug ==
    /\ Quiet
    /\ call \in {[op |-> "getCreatorNameSlug", input |-> name,
                  done |-> FALSE, output |-> Null] : name \in SlugInputs}

\* getCreatorNameSlug(call.input) is called and returns.
CallGetCreatorNameSlug ==
    /\ call.op = "getCreatorNameSlug" /\ ~call.done
    /\ call' = [call EXCEPT !.done = TRUE,
                            !.output = getCreatorNameSlug(call.input)]
    /\ UNCHANGED <<store, translation, req, started, tasks>>

NextSlug == CallGetCreatorNameSlug

SpecSlug == InitSlug /\ [][NextSlug]_vars

\* The authorizations whose claim is resolved on its own: every answer of
\* the profile service, spellings and misspellings of the claimed UUID, and
\* known and unknown providers.
ClaimInputs ==
    {ModAuthorization("minecraft_official", c, n, "hw1", "ip1", t, Null) :
        c \in {CreatorIdX, CreatorIdBad}, n \in {Null, NameA},
        t \in {Null, TokenBlank, TokenGood, TokenExpired, TokenForbidden,
               TokenNetwork, TokenServerError, TokenText, TokenJsonOther,
               TokenNoId, TokenEmptyId, TokenBadId, TokenNoName, TokenFault}}
    \cup
    {ModAuthorization("minecraft_offline", c, Null, "hw1", "ip1", Null, u) :
        c \in {CreatorIdX, CreatorIdBad},
        u \in {Null, <<>>, <<" ">>, McUuidBad, McUuid, McUuidBareUpper,
               [McUuid EXCEPT ![1] = "g"], McUuid \o <<"c">>,
               [McUuid EXCEPT ![15] = "0"]}}
    \cup
    {ModAuthorization(provider, c, NameA, "hw1", "ip1", TokenGood, McUuid) :
        provider \in {"paradox", "local", "steam", "", "Paradox", "minecraft"},
        c \in {CreatorIdX, CreatorIdBad}}

InitClaim ==
    /\ Quiet
    /\ call \in {[op |-> "resolveClaim", auth |-> auth, done |-> FALSE,
                  claim |-> NoClaim] : auth \in ClaimInputs}

\* authenticateCreatorForModUnsafe runs from its start through the provider
\* switch and ensureValidCreatorId.
CallResolveClaim ==
    /\ call.op = "resolveClaim" /\ ~call.done
    /\ call' = [call EXCEPT !.done = TRUE, !.claim = ResolveClaim(call.auth)]
    /\ UNCHANGED <<store, translation, req, started, tasks>>

NextClaim == CallResolveClaim

SpecClaim == InitClaim /\ [][NextClaim]_vars

\* The UUIDs spelled to normalizeUuid, as 32 lower-case hex digits.
UuidDigits ==
    {CompactUuid("c", "4"), CompactUuid("a", "1"),
     CompactUuid("0", "8"), CompactUuid("f", "3")}

UpperChar(c) ==
    CASE c = "a" -> "A" [] c = "b" -> "B" [] c = "c" -> "C"
      [] c = "d" -> "D" [] c = "e" -> "E" [] c = "f" -> "F"
      [] OTHER -> c

\* A spelling of the digits d: in lower case, in upper case or alternating;
\* bare, hyphenated 8-4-4-4-12, or with one hyphen in front and one in the
\* middle.
Spelling(d, case, hyphens) ==
    LET cased == [i \in 1..Len(d) |->
                    IF case = "upper" \/ (case = "mixed" /\ i % 2 = 1)
                    THEN UpperChar(d[i]) ELSE d[i]]
    IN  CASE hyphens = "bare" -> cased
          [] hyphens = "canonical" ->
               SubSeq(cased, 1, 8) \o <<"-">> \o SubSeq(cased, 9, 12) \o <<"-">>
               \o SubSeq(cased, 13, 16) \o <<"-">> \o SubSeq(cased, 17, 20)
               \o <<"-">> \o SubSeq(cased, 21, 32)
          [] OTHER ->
               <<"-">> \o SubSeq(cased, 1, 16) \o <<"-">> \o SubSeq(cased, 17, 32)

\* Strings that spell no UUID: a digit missing, a digit too many, a letter
\* that is no hex digit, a version or a variant that no UUID has.
Misspellings(d) ==
    {SubSeq(d, 1, 31), d \o <<"c">>, Hyphenate(d) \o <<"-", "c">>,
     [d EXCEPT ![1] = "g"], [d EXCEPT ![13] = "0"], [d EXCEPT ![13] = "9"],
     [d EXCEPT ![17] = "c"], <<"-">> \o SubSeq(Hyphenate(d), 1, 35)}

UuidCall(uuid, input) ==
    [op |-> "normalizeUuid", uuid |-> uuid, input |-> input,
     done |-> FALSE, failed |-> FALSE, output |-> Null,
     again |-> FALSE, output2 |-> Null]

InitUuid ==
    /\ Quiet
    /\ call \in {UuidCall(d, Spelling(d, c, h)) :
                    d \in UuidDigits, c \in {"lower", "upper", "mixed"},
                    h \in {"bare", "canonical", "other"}}
              \cup {UuidCall(Null, m) : m \in UNION {Misspellings(d) : d \in UuidDigits}}
              \cup {UuidCall(Null, <<>>), UuidCall(Null, <<"-">>)}

\* normalizeUuid(call.input) is called, and returns or throws.
CallNormalizeUuid ==
    /\ call.op = "normalizeUuid" /\ ~call.done
    /\ call' = [call EXCEPT
                   !.done = TRUE,
                   !.failed = NormalizeUuidFails(call.input),
                   !.output = IF NormalizeUuidFails(call.input) THEN Null
                              ELSE normalizeUuid(call.input)]
    /\ UNCHANGED <<store, translation, req, started, tasks>>

\* normalizeUuid is called on the string it returned.
CallNormalizeUuidAgain ==
    /\ call.op = "normalizeUuid" /\ call.done /\ ~call.failed /\ ~call.again
    /\ call' = [call EXCEPT
                   !.again = TRUE,
                   !.output2 = IF NormalizeUuidFails(call.output) THEN Null
                               ELSE normalizeUuid(call.output)]
    /\ UNCHANGED <<store, translation, req, started, tasks>>

NextUuid == CallNormalizeUuid \/ CallNormalizeUuidAgain

SpecUuid == InitUuid /\ [][NextUuid]_vars

TypeOK ==
    /\ started \in 0..MaxRequests
    /\ \A p \in Procs : req[p].attempt \in {1, 2}


\* ------------------------------------------------------------------------
\* Properties
\* ------------------------------------------------------------------------

Done(p) == req[p].pc = "done"
IsMod(p) == req[p].auth.kind = "mod"
Ok(p) == req[p].status = "ok"
Failed(p, error) == req[p].status = "error" /\ req[p].error = error

\* The effective values of the claim of the request in slot p, as its last
\* run resolved them.
ClaimOf(p) == req[p].claim

\* A finished mod request whose claim passed claim resolution.
Resolved(p) == Done(p) /\ IsMod(p) /\ ClaimOf(p).error = "none"

RowsWithCreatorId(creatorId) ==
    {i \in DOMAIN store : store[i].creatorId = creatorId}

\* Two requests that claim the same identity (they may differ in device and
\* address).
SameClaim(p, q) ==
    /\ req[p].auth.creatorIdProvider = req[q].auth.creatorIdProvider
    /\ req[p].auth.creatorId = req[q].auth.creatorId
    /\ req[p].auth.creatorName = req[q].auth.creatorName
    /\ req[p].auth.minecraftAccessToken = req[q].auth.minecraftAccessToken
    /\ req[p].auth.minecraftPlayerUuid = req[q].auth.minecraftPlayerUuid

\* The only two requests so far claimed the same identity at the same time,
\* and the store rejected the insert of q as a duplicate.
CreateRace(p, q) ==
    /\ p # q /\ started = 2
    /\ Done(p) /\ Done(q) /\ IsMod(p) /\ IsMod(q)
    /\ SameClaim(p, q)
    /\ req[q].conflicts # <<>> /\ req[q].conflicts[1] = "insert"

\* C1: when two concurrent authenticateForMod requests claim the same new
\* external ID and the store rejects the second insert with a duplicate key,
\* then after both complete exactly one account has that external ID, both
\* requests return that account, and neither surfaces an error.
C1_CreateRaceResolves ==
    \A p \in Procs : \A q \in Procs :
        CreateRace(p, q) =>
            /\ Cardinality(RowsWithCreatorId(ClaimOf(p).effectiveCreatorId)) = 1
            /\ Ok(p) /\ Ok(q)
            /\ req[p].returned.id = req[q].returned.id
            /\ req[p].returned.id \in RowsWithCreatorId(ClaimOf(p).effectiveCreatorId)

C1_Witness ==
    \E p \in Procs : \E q \in Procs :
        /\ CreateRace(p, q) /\ req[q].conflicts = <<"insert">>
        /\ req[p].inserts = 1 /\ Ok(q) /\ req[q].inserts = 0

\* C2 (as claimed): the procedure is re-run only when the first run failed
\* because the store rejected an insert; a failure raised by an update write
\* is propagated without a second run.
C2_RetryOnlyAfterInsertConflict ==
    \A p \in Procs : req[p].attempt = 2 => req[p].conflicts[1] = "insert"

\* The single account the last run matched has another external ID than the
\* claim, and does not share the claim's Minecraft UUID.
ForeignMatch(p) ==
    /\ Resolved(p)
    /\ Cardinality(req[p].found) = 1
    /\ req[p].creator.creatorId # ClaimOf(p).effectiveCreatorId
    /\ ~(/\ ClaimOf(p).effectiveMinecraftPlayerUuid # Null
         /\ req[p].creator.minecraftPlayerUuid =
                ClaimOf(p).effectiveMinecraftPlayerUuid)

\* C3 (as claimed): a claim that matches exactly one account, whose external
\* ID differs, whose allowIdentityReset is false and which does not share
\* the claim's Minecraft UUID, is rejected with IdentityMismatch
\* (IncorrectCreatorIdError) and writes nothing.
C3_MismatchRejected ==
    \A p \in Procs :
        ForeignMatch(p) /\ ~req[p].creator.allowCreatorIdReset =>
            Failed(p, "IncorrectCreatorIdError") /\ req[p].writes = 0

\* C4 (as claimed): the same claim, with allowIdentityReset true, succeeds,
\* the account's external ID becomes the claim's, and the flag is cleared.
C4_ResetAlwaysSucceeds ==
    \A p \in Procs :
        ForeignMatch(p) /\ req[p].creator.allowCreatorIdReset =>
            /\ Ok(p)
            /\ req[p].returned.id = req[p].creator.id
            /\ req[p].returned.creatorId = ClaimOf(p).effectiveCreatorId
            /\ ~req[p].returned.allowCreatorIdReset

\* C4 (amended): the same claim, with allowIdentityReset true, is never
\* rejected with IdentityMismatch.  It fails only with InvalidDisplayName,
\* when the claimed name differs from the stored one and is longer than 25
\* characters, or with the store's duplicate-key error, and then writes
\* nothing; otherwise it succeeds with one write, the account's external ID
\* becomes the claim's, and allowIdentityReset is false.
C4_ResetSucceedsUnlessWriteFails ==
    \A p \in Procs :
        ForeignMatch(p) /\ req[p].creator.allowCreatorIdReset =>
            \/ /\ Ok(p)
               /\ req[p].writes = 1
               /\ req[p].returned.id = req[p].creator.id
               /\ req[p].returned.creatorId = ClaimOf(p).effectiveCreatorId
               /\ ~req[p].returned.allowCreatorIdReset
            \/ /\ Failed(p, "InvalidCreatorNameError")
               /\ req[p].creator.creatorName # ClaimOf(p).effectiveCreatorName
               /\ Len(ClaimOf(p).effectiveCreatorName) > MaxCreatorNameLength
               /\ req[p].writes = 0
            \/ /\ Failed(p, "P2002")
               /\ req[p].writes = 0

C4_Witness ==
    \E p \in Procs :
        /\ ForeignMatch(p) /\ req[p].creator.allowCreatorIdReset
        /\ Ok(p)
        /\ store[req[p].creator.id].creatorId = ClaimOf(p).effectiveCreatorId
        /\ ~store[req[p].creator.id].allowCreatorIdReset

\* The last run matched an account that owns the claim's external ID and a
\* different account that owns the claim's display name or slug.
NameOwnedByOther(p) ==
    /\ Resolved(p)
    /\ Truthy(ClaimOf(p).effectiveCreatorName)
    /\ \E a \in req[p].found : \E b \in req[p].found :
          /\ a.id # b.id
          /\ a.creatorId = ClaimOf(p).effectiveCreatorId
          /\ \/ b.creatorName = ClaimOf(p).effectiveCreatorName
             \/ b.creatorNameSlug = ClaimOf(p).creatorNameSlug

\* C5 (as claimed): a claim whose external ID belongs to one account and
\* whose display name or slug belongs to another is rejected with
\* NameAlreadyClaimed carrying the contested name, and writes nothing.
C5_NameClaimRejected ==
    \A p \in Procs :
        NameOwnedByOther(p) =>
            /\ Failed(p, "IncorrectCreatorIdError")
            /\ req[p].detail = ClaimOf(p).effectiveCreatorName
            /\ req[p].writes = 0

\* The single account the last run matched holds exactly the claim's
\* effective values in the seven fields the change detection compares.
StoredEqualsClaim(p) ==
    /\ Resolved(p)
    /\ Cardinality(req[p].found) = 1
    /\ req[p].creator.creatorName = ClaimOf(p).effectiveCreatorName
    /\ req[p].creator.creatorNameSlug = ClaimOf(p).creatorNameSlug
    /\ req[p].creator.hwids[1] = req[p].auth.hwid
    /\ req[p].creator.ips[1] = req[p].auth.ip
    /\ req[p].creator.creatorId = ClaimOf(p).effectiveCreatorId
    /\ req[p].creator.minecraftPlayerUuid = ClaimOf(p).effectiveMinecraftPlayerUuid
    /\ req[p].creator.creatorIdProvider = req[p].auth.creatorIdProvider

\* C6: when the single matched account's name, slug, newest device, newest
\* IP, external ID, Minecraft UUID and provider equal the claim's effective
\* values, the request writes nothing, spawns no translation refresh and
\* returns the account as read.
C6_NoOpUpdateWritesNothing ==
    \A p \in Procs :
        StoredEqualsClaim(p) =>
            /\ Ok(p)
            /\ req[p].returned = req[p].creator
            /\ req[p].writes = 0
            /\ req[p].spawned = 0

C6_Witness ==
    \E p \in Procs :
        /\ StoredEqualsClaim(p) /\ Ok(p)
        /\ req[p].returned = store[req[p].creator.id]
        /\ Len(req[p].creator.ips) = 3

\* The normalized form of a display name, as the data model defines it:
\* whitespace runs collapsed to one space, leading and trailing whitespace
\* trimmed, blank becomes null.
NormalizedDisplayName(name) ==
    IF IsBlank(name) THEN Null ELSE Trim(CollapseSpaces(name))

\* C7 (as claimed): a valid claim whose query matches no account inserts
\* exactly one account, with the effective external ID, the provider, the
\* normalized name, its slug, the effective Minecraft UUID and singleton
\* histories; and an account is inserted only by a run whose query returned
\* no match.
C7_CreateInsertsNormalizedAccount ==
    \A p \in Procs :
        /\ ( /\ Resolved(p)
             /\ ~CreatorNameTooLong(ClaimOf(p).effectiveCreatorName)
             /\ (req[p].found = {} \/ "insert" \in
                    {req[p].conflicts[k] : k \in DOMAIN req[p].conflicts}) )
           => /\ Ok(p)
              /\ req[p].inserts = 1
              /\ req[p].returned.id \notin {c.id : c \in req[p].found}
              /\ req[p].returned.creatorId = ClaimOf(p).effectiveCreatorId
              /\ req[p].returned.creatorIdProvider = req[p].auth.creatorIdProvider
              /\ req[p].returned.creatorName =
                     NormalizedDisplayName(ClaimOf(p).effectiveCreatorName)
              /\ req[p].returned.creatorNameSlug =
                     getCreatorNameSlug(ClaimOf(p).effectiveCreatorName)
              /\ req[p].returned.minecraftPlayerUuid =
                     ClaimOf(p).effectiveMinecraftPlayerUuid
              /\ req[p].returned.hwids = <<req[p].auth.hwid>>
              /\ req[p].returned.ips = <<req[p].auth.ip>>
        /\ (IsMod(p) /\ req[p].inserts > 0 => req[p].inserts = 1 /\ req[p].found = {})

\* The request ran with no other request in between, and the single account
\* it matched is the account exactly as a create with this input leaves it.
RerunOnCreatedAccount(p) ==
    /\ Resolved(p)
    /\ ~req[p].overlapped
    /\ req[p].found = {req[p].creator}
    /\ req[p].creator =
           Creator(req[p].creator.id, ClaimOf(p).effectiveCreatorId,
                   req[p].auth.creatorIdProvider,
                   validateCreatorName(ClaimOf(p).effectiveCreatorName),
                   getCreatorNameSlug(ClaimOf(p).effectiveCreatorName),
                   ClaimOf(p).effectiveMinecraftPlayerUuid, FALSE,
                   <<req[p].auth.hwid>>, <<req[p].auth.ip>>)

\* C8 (as claimed): running a request again with the input that created the
\* account creates no account, writes nothing, and returns the same account
\* unchanged, also when the raw display name is not in normalized form.
C8_RerunWritesNothing ==
    \A p \in Procs :
        RerunOnCreatedAccount(p) =>
            /\ Ok(p)
            /\ req[p].inserts = 0
            /\ req[p].writes = 0
            /\ req[p].returned = req[p].creator

\* C8 (amended): running a request again with the input that created the
\* account creates no account and returns the same account with all fields
\* unchanged; it writes nothing when the raw display name equals the stored
\* name, and otherwise performs one update that rewrites the same values
\* and spawns no translation refresh.
C8_RerunLeavesAccountUnchanged ==
    \A p \in Procs :
        RerunOnCreatedAccount(p) =>
            /\ Ok(p)
            /\ req[p].inserts = 0
            /\ req[p].spawned = 0
            /\ req[p].returned = req[p].creator
            /\ req[p].writes =
                   IF req[p].creator.creatorName = ClaimOf(p).effectiveCreatorName
                   THEN 0 ELSE 1

C8_Witness ==
    \E p \in Procs :
        /\ RerunOnCreatedAccount(p) /\ Ok(p)
        /\ req[p].writes = 1
        /\ req[p].creator.creatorName # Null
        /\ store[req[p].creator.id] = req[p].creator

NoDuplicates(list) ==
    \A i \in 1..Len(list) : \A j \in 1..Len(list) : list[i] = list[j] => i = j

\* C9: every account's deviceHistory and ipHistory has at most 3 entries and
\* no duplicates, and the account a successful authentication returns has the
\* request's IP, and on the mod path its device, at the head of its history.
C9_HistoriesBounded ==
    /\ \A i \in DOMAIN store :
          /\ Len(store[i].hwids) <= 3 /\ NoDuplicates(store[i].hwids)
          /\ Len(store[i].ips) <= 3 /\ NoDuplicates(store[i].ips)
    /\ \A p \in Procs :
          Done(p) /\ Ok(p) =>
              /\ req[p].returned.ips[1] = req[p].auth.ip
              /\ IsMod(p) => req[p].returned.hwids[1] = req[p].auth.hwid

C9_Witness ==
    \E p \in Procs :
        /\ Done(p) /\ Ok(p) /\ req[p].writes = 1
        /\ Len(req[p].creator.ips) = 3
        /\ req[p].auth.ip \notin {req[p].creator.ips[k] : k \in 1..3}
        /\ store[req[p].returned.id].ips =
               <<req[p].auth.ip, req[p].creator.ips[1], req[p].creator.ips[2]>>

\* C10 (as claimed): no two distinct accounts hold the same non-null
\* displayName, displayNameSlug or minecraftPlayerUuid.
C10_UniqueNamesAndPlayers ==
    \A i \in DOMAIN store : \A j \in DOMAIN store :
        i # j =>
            /\ store[i].creatorName # Null =>
                   store[i].creatorName # store[j].creatorName
            /\ store[i].creatorNameSlug # Null =>
                   store[i].creatorNameSlug # store[j].creatorNameSlug
            /\ store[i].minecraftPlayerUuid # Null =>
                   store[i].minecraftPlayerUuid # store[j].minecraftPlayerUuid

IsNormalizedName(name) ==
    \/ name = Null
    \/ /\ name # <<>>
       /\ ~IsSpace(name[1]) /\ ~IsSpace(name[Len(name)])
       /\ \A k \in 1..(Len(name) - 1) : ~(IsSpace(name[k]) /\ IsSpace(name[k + 1]))

\* The request wrote a display name: it created the account, or its update
\* changed the name.
WroteName(p) ==
    /\ Done(p) /\ IsMod(p) /\ Ok(p)
    /\ \/ req[p].inserts = 1
       \/ /\ req[p].writes = 1
          /\ req[p].returned.creatorName # req[p].creator.creatorName

\* C12 (as claimed): every display name the resolver writes, on a create or
\* on an update that changes the name, is in normalized form (no leading or
\* trailing whitespace, no whitespace run), and a blank name is stored as
\* null.
C12_WrittenNamesNormalized ==
    \A p \in Procs :
        WroteName(p) =>
            /\ IsNormalizedName(req[p].returned.creatorName)
            /\ IsBlank(ClaimOf(p).effectiveCreatorName) =>
                   req[p].returned.creatorName = Null

\* The last run of the request reached a write of the display name: the
\* create, or an update past the Creator ID check whose name differs from
\* the stored one.
ReachedNameWrite(p) ==
    /\ Resolved(p)
    /\ \/ req[p].found = {}
       \/ /\ req[p].found = {req[p].creator}
          /\ ~CreatorIdMismatch(req[p].creator, ClaimOf(p))
          /\ req[p].creator.creatorName # ClaimOf(p).effectiveCreatorName

NamesWithinLength ==
    \A i \in DOMAIN store :
        store[i].creatorName = Null
            \/ Len(store[i].creatorName) <= MaxCreatorNameLength

IsSimple(p) == req[p].auth.kind = "simple"

\* The step is one of the handler in slot p: it starts or it resumes.
Took(p) == IF Busy(p) THEN req'[p].pc # req[p].pc ELSE req'[p] # req[p]

\* C14 (as claimed): authenticateSimple fails with AccountNotFound for
\* every external ID that matches no account, and never writes then.
C14_SimpleMissNotFound ==
    \A p \in Procs :
        Done(p) /\ IsSimple(p) /\ req[p].found = {} =>
            /\ Failed(p, "CreatorNotFoundError")
            /\ req[p].writes = 0 /\ req[p].inserts = 0

\* C14 (amended): authenticateSimple never creates an account; for a
\* well-formed external ID that matches no account it fails with
\* AccountNotFound, and for an external ID that is not a version 4 UUID it
\* fails with InvalidExternalId before any query; both leave the store
\* unchanged, and no step of authenticateSimple changes the set of accounts.
C14_SimpleNeverCreates ==
    /\ [](\A p \in Procs :
            Done(p) /\ IsSimple(p) =>
                /\ req[p].inserts = 0
                /\ req[p].found = {} =>
                      /\ req[p].writes = 0
                      /\ IF IsValidCreatorId(req[p].auth.creatorId)
                         THEN Failed(p, "CreatorNotFoundError") /\ req[p].queries = 1
                         ELSE Failed(p, "InvalidCreatorIdError") /\ req[p].queries = 0)
    /\ [][\A p \in Procs :
            Took(p) /\ req'[p].auth.kind = "simple" =>
                /\ {store'[i].id : i \in DOMAIN store'} = {store[i].id : i \in DOMAIN store}
                /\ req'[p].status = "error" => store' = store]_vars

\* A lookup of a well-formed external ID missed while the table held an
\* account.
C14_Witness ==
    \E p \in Procs :
        /\ Done(p) /\ IsSimple(p)
        /\ Failed(p, "CreatorNotFoundError")
        /\ store # <<>>
        /\ RowsWithCreatorId(req[p].auth.creatorId) = {}

MissingCredentialErrors ==
    {"MissingMinecraftOfficialAccessTokenError",
     "MissingMinecraftOfflinePlayerUuidError"}

ResolutionErrors ==
    MissingCredentialErrors \cup
    {"UnsupportedCreatorIdProviderError", "InvalidMinecraftPlayerUuidError",
     "MinecraftOfficialAuthenticationError", "InvalidCreatorIdError"}

IsOfficial(p) == IsMod(p) /\ req[p].auth.creatorIdProvider = "minecraft_official"

\* The profile the verifier reports for the bearer token of slot p.
VerifiedProfile(p) ==
    verifyOfficialAccount(ProfileService(req[p].auth.minecraftAccessToken))

\* The external IDs a client may send along with a bearer token.
RawCreatorIds == {CreatorIdX, CreatorIdY, CreatorIdBad, McUuid}

\* What a handler's record shows besides the raw external ID: the raw ID is
\* blanked in the authorization, and in the locals of a run that threw
\* before it resolved its claim.
BesidesRawId(r) ==
    [r EXCEPT !.auth.creatorId = Null,
              !.claim.effectiveCreatorId =
                  IF r.claim.error = "none" THEN @ ELSE Null]

\* C17: under minecraft_official the effective external ID and the
\* effective Minecraft UUID are the verified UUID, the verifier's username
\* is the display name only when the client sent none, and every run of the
\* procedure reads, decides and prepares its write in the same way whatever
\* raw external ID the client sent.
C17_OfficialIdentityFromVerifier ==
    /\ [](\A p \in Procs :
            Done(p) /\ IsOfficial(p) /\ ClaimOf(p).error = "none" =>
                /\ ClaimOf(p).effectiveCreatorId = VerifiedProfile(p).uuid
                /\ ClaimOf(p).effectiveMinecraftPlayerUuid = VerifiedProfile(p).uuid
                /\ ClaimOf(p).effectiveCreatorName =
                       IF Truthy(req[p].auth.creatorName)
                       THEN req[p].auth.creatorName
                       ELSE VerifiedProfile(p).username
                /\ Ok(p) =>
                       /\ req[p].returned.creatorId = VerifiedProfile(p).uuid
                       /\ req[p].returned.minecraftPlayerUuid = VerifiedProfile(p).uuid)
    /\ [][\A p \in Procs :
            ( /\ Took(p)
              /\ req'[p].auth.creatorIdProvider = "minecraft_official"
              /\ req[p].pc \in {"idle", "done", "mod_query"} )
            => LET auth == req'[p].auth
                   before == IF req[p].pc = "mod_query" THEN req[p]
                             ELSE Request("mod_query", auth)
               IN  \A raw \in RawCreatorIds :
                       BesidesRawId(RunUnsafe([before EXCEPT !.auth.creatorId = raw],
                                              store))
                           = BesidesRawId(req'[p])]_vars

\* Two requests with the same bearer token and different raw external IDs,
\* one of them no UUID at all, were given the same account.
C17_Witness ==
    \E p \in Procs : \E q \in Procs :
        /\ p # q
        /\ Done(p) /\ IsOfficial(p) /\ Ok(p)
        /\ Done(q) /\ IsOfficial(q) /\ Ok(q)
        /\ req[p].auth.creatorId # req[q].auth.creatorId
        /\ req[q].auth.creatorId = CreatorIdBad
        /\ req[p].returned.id = req[q].returned.id
        /\ req[p].returned.creatorId = McUuid

\* A step of a translation refresh: a call in progress ends or moves on.
RefreshStep == \E t \in tasks : t \notin tasks'

\* C18: the result of authenticateForMod does not depend on the translation
\* refresh: the request that spawns a refresh returns in the same step,
\* with the refresh still in progress, and no step of a refresh, failed or
\* not, changes the result, the position or the run count of any request,
\* writes an identity column, or starts another refresh.
C18_RefreshNeverReachesRequest ==
    [][/\ RefreshStep =>
            /\ req' = req /\ store' = store /\ started' = started
            /\ Cardinality(tasks') = Cardinality(tasks)
            /\ \A t \in tasks' \ tasks :
                   \E s \in tasks \ tasks' :
                       /\ s.pc # "done"
                       /\ t = [s EXCEPT !.pc = t.pc, !.result = t.result]
       /\ \A p \in Procs :
            req'[p].spawned > req[p].spawned =>
                /\ req'[p].pc = "done" /\ req'[p].status = "ok"
                /\ RefreshTask(Cardinality(tasks) + 1, req'[p].returned)
                       \in tasks' \ tasks]_vars

\* The translator failed in the refresh of an account, and the request that
\* created the account has its account: the row still has the translation
\* columns it was inserted with and its one refresh has ended.
C18_Witness ==
    \E p \in Procs :
        /\ Done(p) /\ IsMod(p) /\ Ok(p)
        /\ req[p].inserts = 1 /\ req[p].spawned = 1
        /\ isEligibleForTranslation(req[p].returned.creatorName)
        /\ translation[req[p].returned.id] = DefaultTranslation
        /\ \E t \in tasks : t.id = req[p].returned.id
        /\ \A t \in tasks :
               t.id = req[p].returned.id => t.result = "translator_error"

\* s is the lower-case 8-4-4-4-12 spelling of the 32 hex digits d.
IsCanonicalSpellingOf(s, d) ==
    /\ Len(s) = 36
    /\ \A i \in {9, 14, 19, 24} : s[i] = "-"
    /\ \A j \in 1..32 :
          LET i == j + (IF j > 20 THEN 4 ELSE IF j > 16 THEN 3
                        ELSE IF j > 12 THEN 2 ELSE IF j > 8 THEN 1 ELSE 0)
          IN  s[i] = d[j] /\ s[i] \in HexLower

\* The number of characters of s that are not hyphens.
RECURSIVE CountDigits(_)
CountDigits(s) ==
    IF s = <<>> THEN 0
    ELSE (IF Head(s) = "-" THEN 0 ELSE 1) + CountDigits(Tail(s))

\* C19: normalizeMinecraftUuid maps every spelling of a UUID, hyphenated or
\* bare, in any letter case, to its lower-case 8-4-4-4-12 spelling, returns
\* its own output unchanged, and fails for every input that does not have
\* exactly 32 characters besides hyphens.
C19_NormalizeUuidCanonical ==
    call.op = "normalizeUuid" /\ call.done =>
        /\ CountDigits(call.input) # 32 => call.failed
        /\ call.uuid # Null =>
               ~call.failed /\ IsCanonicalSpellingOf(call.output, call.uuid)
        /\ call.again => call.output2 = call.output

\* The bare upper-case spelling was normalized, and so was the result.
C19_Witness ==
    /\ call.op = "normalizeUuid" /\ call.done /\ call.again
    /\ call.input = McUuidBareUpper
    /\ call.output = McUuid /\ call.output2 = McUuid

\* C20 (as claimed): slugify returns null for a null, empty or
\* whitespace-only name, and for every other name a lower-case string with
\* no apostrophe, no whitespace, no hyphen at either end and no two hyphens
\* in a row.
C20_SlugWellFormed ==
    call.op = "getCreatorNameSlug" /\ call.done =>
        IF IsBlank(call.input) THEN call.output = Null
        ELSE LET slug == call.output
             IN  /\ slug # Null
                 /\ \A k \in DOMAIN slug :
                       /\ slug[k] \notin {"A", "B", "C", "D", "E", "F"}
                       /\ slug[k] # "'"
                       /\ ~IsSpace(slug[k])
                 /\ slug # <<>> => slug[1] # "-" /\ slug[Len(slug)] # "-"
                 /\ \A k \in 1..(Len(slug) - 1) :
                       ~(slug[k] = "-" /\ slug[k + 1] = "-")

\* The last run's query returned two or more accounts.
ManyMatches(p) == Resolved(p) /\ Cardinality(req[p].found) >= 2

\* The accounts the last run matched are exactly the account that owns the
\* claim's external ID and a different account that has the claim's display
\* name or its slug.
IdAndNameMatches(p) ==
    /\ Truthy(ClaimOf(p).effectiveCreatorName)
    /\ \E a \in req[p].found : \E b \in req[p].found :
          /\ a.id # b.id
          /\ req[p].found = {a, b}
          /\ a.creatorId = ClaimOf(p).effectiveCreatorId
          /\ \/ b.creatorName = ClaimOf(p).effectiveCreatorName
             \/ b.creatorNameSlug = ClaimOf(p).creatorNameSlug

\* C21 (as claimed): when the query returns two or more accounts the request
\* writes nothing and updates no account; it fails with NameAlreadyClaimed
\* only when a display name was supplied and the matches are exactly the
\* account owning the effective external ID and a different account owning
\* the display name or slug, and with the internal invariant violation for
\* every other shape.
C21_ManyMatchesByShape ==
    \A p \in Procs :
        ManyMatches(p) =>
            /\ req[p].writes = 0 /\ req[p].inserts = 0
            /\ req[p].creator = NoCreator
            /\ IF IdAndNameMatches(p)
               THEN Failed(p, "IncorrectCreatorIdError")
               ELSE Failed(p, "AssertionError")

\* No two accounts of the table share an external ID, a display name, a
\* slug or a Minecraft UUID.
ConsistentStore(table) ==
    \A i \in DOMAIN table : \A j \in DOMAIN table :
        i # j =>
            /\ table[i].creatorId # table[j].creatorId
            /\ table[i].creatorName # Null =>
                   table[i].creatorName # table[j].creatorName
            /\ table[i].creatorNameSlug # Null =>
                   table[i].creatorNameSlug # table[j].creatorNameSlug
            /\ table[i].minecraftPlayerUuid # Null =>
                   table[i].minecraftPlayerUuid # table[j].minecraftPlayerUuid

\* Every account that the name or slug term of the claim's filter matches
\* has a display name.
NameMatchesAreNamed(table, claim) ==
    \A i \in DOMAIN table :
        ( /\ Truthy(claim.effectiveCreatorName)
          /\ \/ table[i].creatorName = claim.effectiveCreatorName
             \/ table[i].creatorNameSlug = claim.creatorNameSlug )
        => table[i].creatorName # Null

\* C22 (as claimed): a run that reads a table in which no two accounts share
\* an external ID, display name, slug or Minecraft UUID, and in which every
\* account matched by name has a display name, never ends in the internal
\* invariant violation, whatever the claim.
C22_AssertionOnlyOnInconsistentStore ==
    [][\A p \in Procs :
          ( /\ Took(p)
            /\ req'[p].status = "error" /\ req'[p].error = "AssertionError" )
          => ~( /\ ConsistentStore(store)
                /\ NameMatchesAreNamed(store, req'[p].claim) )]_vars

\* The account as read is linked to the Minecraft account of the claim.
SameMinecraftPlayer(creator, claim) ==
    /\ claim.effectiveMinecraftPlayerUuid # Null
    /\ creator.minecraftPlayerUuid = claim.effectiveMinecraftPlayerUuid

\* The step is the update of the mod request in slot p, and it is persisted.
PersistedModUpdate(p) ==
    /\ req[p].pc = "mod_update"
    /\ req'[p].pc = "done" /\ req'[p].writes = req[p].writes + 1

\* The last run of a finished request matched one account with another
\* external ID, no reset allowed, linked to the claim's Minecraft account.
SamePlayerOtherId(p) ==
    /\ Resolved(p)
    /\ req[p].found = {req[p].creator}
    /\ req[p].creator.creatorId # ClaimOf(p).effectiveCreatorId
    /\ ~req[p].creator.allowCreatorIdReset
    /\ SameMinecraftPlayer(req[p].creator, ClaimOf(p))

\* C23 (as claimed): an account's external ID changes only in an update of
\* authenticateForMod that read the account with allowIdentityReset true or
\* with the Minecraft UUID of the claim; in the latter case the request is
\* not rejected for its external ID, and the stored external ID becomes the
\* claimed one.
C23_CreatorIdChangesOnlyWhenAllowed ==
    /\ [][\A i \in DOMAIN store :
            store'[i].creatorId # store[i].creatorId =>
                \E p \in Procs :
                    /\ PersistedModUpdate(p)
                    /\ req[p].creator.id = i
                    /\ store'[i].creatorId = req[p].claim.effectiveCreatorId
                    /\ \/ req[p].creator.allowCreatorIdReset
                       \/ SameMinecraftPlayer(req[p].creator, req[p].claim)]_vars
    /\ [](\A p \in Procs :
            SamePlayerOtherId(p) =>
                /\ ~Failed(p, "IncorrectCreatorIdError")
                /\ ~Failed(p, "AssertionError")
                /\ Ok(p) => /\ req[p].writes = 1
                            /\ req[p].returned.id = req[p].creator.id
                            /\ req[p].returned.creatorId =
                                   ClaimOf(p).effectiveCreatorId)

\* The finished request in slot p matched one account by name only, read it
\* with allowCreatorIdReset true, and its update changed the external ID.
UsedReset(p) ==
    /\ ForeignMatch(p)
    /\ req[p].creator.allowCreatorIdReset
    /\ req[p].creator.creatorName = ClaimOf(p).effectiveCreatorName
    /\ Ok(p) /\ req[p].writes = 1
    /\ req[p].returned.creatorId # req[p].creator.creatorId

\* C24 (as claimed): of the requests that match an account by name with
\* different external IDs and no shared Minecraft UUID, at most one changes
\* the external ID on one grant of allowIdentityReset, under every
\* interleaving; the model has no administrator, so that every account is
\* granted the reset at most once, before the first request.
C24_OneChangePerGrant ==
    \A p \in Procs : \A q \in Procs :
        ( /\ p # q
          /\ UsedReset(p)
          /\ ForeignMatch(q)
          /\ req[q].creator.id = req[p].creator.id
          /\ req[q].creator.creatorName = ClaimOf(q).effectiveCreatorName
          /\ ClaimOf(q).effectiveCreatorId # ClaimOf(p).effectiveCreatorId )
        => /\ ~UsedReset(q)
           /\ Failed(q, "IncorrectCreatorIdError")

\* C25: every persisted update of authenticateForMod leaves the account
\* with the claim's effective external ID, provider and Minecraft UUID (null
\* for a claim that has none), with the device and IP histories equal to
\* the merge of the claim's device and IP into the histories that were
\* read, with allowIdentityReset false and with its accountId unchanged.
C25_UpdateWritesEffectiveValues ==
    [][\A p \in Procs :
          PersistedModUpdate(p) =>
              LET read == req[p].creator
                  row == store'[read.id]
              IN  /\ Len(store') = Len(store)
                  /\ row.id = read.id
                  /\ row.creatorId = req[p].claim.effectiveCreatorId
                  /\ row.creatorIdProvider = req[p].auth.creatorIdProvider
                  /\ row.minecraftPlayerUuid =
                         req[p].claim.effectiveMinecraftPlayerUuid
                  /\ row.hwids = MergeHistory(req[p].auth.hwid, read.hwids)
                  /\ row.ips = MergeHistory(req[p].auth.ip, read.ips)
                  /\ ~row.allowCreatorIdReset
                  /\ req'[p].returned = row]_vars

\* A paradox claim from a new device updated an account that was linked to
\* a Minecraft account and had the reset allowed: the account has the
\* claimed external ID and provider, no Minecraft UUID, no reset allowed,
\* and the new device ahead of two of the three devices it had.
C25_Witness ==
    \E p \in Procs :
        /\ Done(p) /\ IsMod(p) /\ Ok(p) /\ req[p].writes = 1
        /\ req[p].auth.creatorIdProvider = "paradox"
        /\ req[p].creator.minecraftPlayerUuid = McUuid
        /\ req[p].creator.allowCreatorIdReset
        /\ req[p].creator.creatorIdProvider # "paradox"
        /\ LET row == store[req[p].creator.id]
           IN  /\ row.creatorId = ClaimOf(p).effectiveCreatorId
               /\ row.creatorIdProvider = "paradox"
               /\ row.minecraftPlayerUuid = Null
               /\ ~row.allowCreatorIdReset
               /\ row.hwids = <<"hw4", "hw1", "hw2">>

\* The last run matched one account whose display name is the claim's.
SameNameMatch(p) ==
    /\ Resolved(p)
    /\ req[p].found = {req[p].creator}
    /\ req[p].creator.creatorName = ClaimOf(p).effectiveCreatorName

\* C26: an update whose effective display name equals the stored one never
\* fails with InvalidDisplayName and writes the name as it was read, also
\* when the stored name would not pass validation; a name is validated, and
\* rejected, only when it differs from the stored one.
C26_StableNameNotRevalidated ==
    /\ [](\A p \in Procs :
            /\ SameNameMatch(p) => ~Failed(p, "InvalidCreatorNameError")
            /\ ( /\ Resolved(p) /\ req[p].found # {}
                 /\ Failed(p, "InvalidCreatorNameError") )
               => /\ req[p].creator.creatorName # ClaimOf(p).effectiveCreatorName
                  /\ CreatorNameTooLong(ClaimOf(p).effectiveCreatorName))
    /\ [][\A p \in Procs :
            ( /\ PersistedModUpdate(p)
              /\ req[p].creator.creatorName = req[p].claim.effectiveCreatorName )
            => /\ store'[req[p].creator.id].creatorName = req[p].creator.creatorName
               /\ req'[p].spawned = req[p].spawned]_vars

\* An update of the account with the legacy name of 26 characters, claimed
\* with that name, was persisted, and the account still has the name.
C26_Witness ==
    \E p \in Procs :
        /\ SameNameMatch(p) /\ Ok(p) /\ req[p].writes = 1
        /\ req[p].creator.creatorName = NameLong
        /\ CreatorNameTooLong(req[p].creator.creatorName)
        /\ validateCreatorName(NameLong) # NameLong
        /\ store[req[p].creator.id].creatorName = NameLong

\* The step spawns a translation refresh on behalf of the request in slot p.
Spawned(p) == Busy(p) /\ req'[p].spawned = req[p].spawned + 1

\* The step is the insert of the mod request in slot p, and it is persisted.
PersistedModCreate(p) ==
    /\ req[p].pc = "mod_create"
    /\ req'[p].pc = "done" /\ req'[p].inserts = req[p].inserts + 1

NotTranslatable(name) == ~(Truthy(name) /\ isEligibleForTranslation(name))

\* C28: refreshTranslation writes nothing but the translation columns of
\* the account it was given.  For an absent or ineligible name it sets
\* needsTranslation to false, clears the three derived columns and reports
\* not translated; for an eligible name it stores the translator's three
\* results with needsTranslation false and reports translated; while it
\* waits for the translator, and when the translator or the store fails, it
\* writes nothing.
C28_RefreshWritesTranslationOnly ==
    [][\A s \in tasks \ tasks' : \A t \in tasks' \ tasks :
          s.n = t.n =>
              /\ store' = store
              /\ DOMAIN translation' = DOMAIN translation
              /\ \A i \in DOMAIN translation :
                     i # s.id => translation'[i] = translation[i]
              /\ t.id = s.id /\ t.creatorName = s.creatorName
              /\ t.result \in {"none", "translated", "not_translated",
                               "translator_error", "store_error"}
              /\ (t.pc = "done") = (t.result # "none")
              /\ NotTranslatable(s.creatorName) =>
                     t.result \in {"not_translated", "store_error"}
              /\ ~NotTranslatable(s.creatorName) =>
                     t.result \in {"none", "translated",
                                   "translator_error", "store_error"}
              /\ t.result = "not_translated" =>
                     translation'[s.id] = Translation(FALSE, Null, Null, Null)
              /\ t.result = "translated" =>
                     translation'[s.id] =
                         Translation(FALSE,
                             translateCreatorName(s.creatorName).twoLetterLocaleCode,
                             translateCreatorName(s.creatorName).transliteration,
                             translateCreatorName(s.creatorName).translation)
              /\ t.result \notin {"translated", "not_translated"} =>
                     translation' = translation]_vars

\* One refresh reported that it translated the name of its account, and the
\* account has the three results; another cleared the columns of an account
\* without a name.
C28_Witness ==
    \E a \in tasks : \E b \in tasks :
        /\ a.result = "translated"
        /\ store[a.id].creatorName = a.creatorName
        /\ translation[a.id].creatorNameLatinized = <<"l">> \o a.creatorName
        /\ ~translation[a.id].needsTranslation
        /\ b.result = "not_translated" /\ b.creatorName = Null
        /\ translation[b.id] = Translation(FALSE, Null, Null, Null)
        /\ a.id # b.id

\* The name and slug terms are in the filter of the last run: the test
\* `if (effectiveCreatorName)' passed.
NameTermsInFilter(p) == Truthy(ClaimOf(p).effectiveCreatorName)

\* C29 (as claimed): the name and slug terms are in the filter only when a
\* display name is present, the slug in the filter is never null, and a
\* claim whose display name is blank matches the accounts that a claim
\* without a display name matches, none of them by its null slug.
C29_BlankNameIsNoName ==
    \A p \in Procs :
        Resolved(p) /\ req[p].queries > 0 =>
            /\ NameTermsInFilter(p) => ClaimOf(p).effectiveCreatorName # Null
            /\ NameTermsInFilter(p) => ClaimOf(p).creatorNameSlug # Null
            /\ IsBlank(ClaimOf(p).effectiveCreatorName) =>
                   \A c \in req[p].found :
                       \/ c.creatorId = ClaimOf(p).effectiveCreatorId
                       \/ SameMinecraftPlayer(c, ClaimOf(p))

\* The exchange with the profile service fails the verification: the
\* request failed or was answered with an error status, the credential was
\* refused, or the body is no profile with the id of a Minecraft account.
VerifierFails(response) ==
    \/ response.kind = "network"
    \/ response.status \notin 200..299
    \/ response.kind # "json"
    \/ response.id = Null \/ response.id = <<>>
    \/ CountDigits(response.id) # 32
    \/ ~UuidValidate(Hyphenate(Compact(response.id)))

\* C30: under minecraft_official every failure of the verifier (request
\* failure, refused credential, malformed response) is thrown as
\* AuthenticationFailed, and an error of another kind as it is; under
\* minecraft_offline a claimed UUID that fails normalization is thrown as
\* InvalidLinkedUuid with the raw value; a provider other than the four
\* known ones is rejected with UnsupportedProvider.
C30_ProviderErrorsMapped ==
    call.op = "resolveClaim" /\ call.done =>
        LET auth == call.auth
            claim == call.claim
        IN  CASE auth.creatorIdProvider = "minecraft_official" ->
                   IF IsBlank(auth.minecraftAccessToken)
                   THEN claim.error = "MissingMinecraftOfficialAccessTokenError"
                   ELSE IF auth.minecraftAccessToken = TokenFault
                   THEN claim.error = "RangeError"
                   ELSE IF VerifierFails(ProfileService(auth.minecraftAccessToken))
                   THEN claim.error = "MinecraftOfficialAuthenticationError"
                   ELSE claim.error = "none"
              [] auth.creatorIdProvider = "minecraft_offline" ->
                   IF IsBlank(auth.minecraftPlayerUuid)
                   THEN claim.error = "MissingMinecraftOfflinePlayerUuidError"
                   ELSE IF NormalizeUuidFails(auth.minecraftPlayerUuid)
                   THEN /\ claim.error = "InvalidMinecraftPlayerUuidError"
                        /\ claim.detail = auth.minecraftPlayerUuid
                   ELSE claim.error \in {"none", "InvalidCreatorIdError"}
              [] auth.creatorIdProvider \in {"paradox", "local"} ->
                   claim.error \in {"none", "InvalidCreatorIdError"}
              [] OTHER ->
                   /\ claim.error = "UnsupportedCreatorIdProviderError"
                   /\ claim.detail = auth.creatorIdProvider

\* The profile service answered a well-formed token with status 500, and
\* the claim was rejected with AuthenticationFailed.
C30_Witness ==
    /\ call.op = "resolveClaim" /\ call.done
    /\ call.auth.creatorIdProvider = "minecraft_official"
    /\ call.auth.minecraftAccessToken = TokenServerError
    /\ ProfileService(call.auth.minecraftAccessToken).status = 500
    /\ call.claim.error = "MinecraftOfficialAuthenticationError"
    /\ call.claim.verified

\* The values of a history.
Entries(history) == {history[k] : k \in DOMAIN history}

\* Two finished, successful authentications of the same account ran at the
\* same time, each from an IP that the other did not send and that the
\* account did not have when it was read.
ConcurrentNewIps(p, q) ==
    /\ p # q
    /\ Done(p) /\ Ok(p) /\ Done(q) /\ Ok(q)
    /\ req[p].overlapped \/ req[q].overlapped
    /\ req[p].creator.id # 0 /\ req[p].creator.id = req[q].creator.id
    /\ req[p].auth.ip # req[q].auth.ip
    /\ req[p].auth.ip \notin Entries(req[p].creator.ips)
    /\ req[q].auth.ip \notin Entries(req[q].creator.ips)
    /\ req[p].auth.ip \notin Entries(req[q].creator.ips)
    /\ req[q].auth.ip \notin Entries(req[p].creator.ips)

\* C31 (as claimed): when two authentications of the same account with
\* distinct new IPs run concurrently, the account's ipHistory holds both
\* IPs once both have completed, under every interleaving of their reads
\* and writes.
C31_NoHistoryEntryLost ==
    \A p \in Procs : \A q \in Procs :
        ConcurrentNewIps(p, q) /\ started = 2 =>
            /\ req[p].auth.ip \in Entries(store[req[p].creator.id].ips)
            /\ req[q].auth.ip \in Entries(store[req[p].creator.id].ips)

\* The step changes allowCreatorIdReset of the row id.
FlagChanged(id) ==
    store'[id].allowCreatorIdReset # store[id].allowCreatorIdReset

\* C32: allowCreatorIdReset of an account goes from true to false only in
\* the step in which an update of authenticateForMod on that account is
\* persisted; every other step (authenticateSimple, a translation refresh,
\* a rejection, a no-op return) leaves the flag of every account as it was,
\* no step sets a flag to true, and a created account has the flag false.
C32_FlagClearedOnlyByModUpdate ==
    [][ /\ \A id \in DOMAIN store :
            /\ id \in DOMAIN store'
            /\ FlagChanged(id) =>
                  /\ store[id].allowCreatorIdReset
                  /\ ~store'[id].allowCreatorIdReset
                  /\ \E p \in Procs :
                        /\ IsMod(p) /\ PersistedModUpdate(p)
                        /\ req[p].creator.id = id
        /\ \A id \in DOMAIN store' \ DOMAIN store :
              ~store'[id].allowCreatorIdReset
        /\ \A p \in Procs :
              (Took(p) /\ ~PersistedModUpdate(p)) \/ RefreshStep =>
                  \A id \in DOMAIN store : ~FlagChanged(id)
      ]_vars

\* An update of authenticateForMod cleared the flag of an account that a
\* finished authenticateSimple request had left set, and a translation
\* refresh of that account has ended.
C32_Witness ==
    \E p \in Procs : \E q \in Procs : \E t \in tasks :
        /\ Done(p) /\ IsMod(p) /\ Ok(p) /\ req[p].writes = 1
        /\ req[p].creator.id # 0
        /\ req[p].creator.allowCreatorIdReset
        /\ ~store[req[p].creator.id].allowCreatorIdReset
        /\ Done(q) /\ IsSimple(q) /\ Ok(q) /\ req[q].writes = 1
        /\ req[q].creator.id = req[p].creator.id
        /\ req[q].returned.allowCreatorIdReset
        /\ t.id = req[p].creator.id /\ t.pc = "done"

\* ------------------------------------------------------------------------
\* Screenshot deletion (ScreenshotController.deleteOne)
\* ------------------------------------------------------------------------

\* The DELETE /screenshots/:id requests that run at the same time.
MaxDeleteRequests == 2

DeleteProcs == 1..MaxDeleteRequests

\* A row of the Screenshot table, as far as deleteOne reads it.
Screenshot(id, creatorId) == [id |-> id, creatorId |-> creatorId]

NoScreenshot == Screenshot("none", 0)

\* The ids a request can name: two screenshots and an id of no screenshot.
ScreenshotIds == {"s1", "s2", "s3"}

\* The Screenshot tables a request can find: creator 1 and creator 2 own
\* none, one or two screenshots.
ScreenshotTables ==
    {{}, {Screenshot("s1", 1)}, {Screenshot("s1", 1), Screenshot("s2", 2)},
     {Screenshot("s1", 2), Screenshot("s2", 2)}}

\* The creator that CreatorAuthorizationGuard attached to a request: the
\* creator 1, 2 or 3, or none (id 0) when the request carries no credentials.
AuthenticatedCreators == {0, 1, 2, 3}

\* A deleteOne request: its parameters, where it stands, the row findUnique
\* returned, whether it called deleteScreenshot, and its outcome.
DeleteRequest(creatorId, id) ==
    [pc |-> "idle", creator |-> [id |-> creatorId], id |-> id,
     screenshot |-> NoScreenshot, called |-> FALSE,
     status |-> "pending", error |-> "none"]

\* prisma.screenshot.findUnique({where: {id}}).
FindScreenshot(table, id) ==
    IF \E s \in table : s.id = id
    THEN CHOOSE s \in table : s.id = id
    ELSE NoScreenshot

\* Mutant of NotOwner: every creator passes the ownership check.
NotOwnerNever(screenshot, creator) == FALSE

\* deleteOne: screenshot.creatorId != creator.id.
NotOwner(screenshot, creator) == screenshot.creatorId # creator.id

\* The request ends with an exception.
DeleteThrow(d, error) ==
    [d EXCEPT !.pc = "done", !.status = "error", !.error = error]

InitDelete ==
    /\ Quiet
    /\ call \in {[op |-> "deleteOne", screenshots |-> table,
                  d |-> [p \in DeleteProcs |-> DeleteRequest(0, "s3")]] :
                    table \in ScreenshotTables}

\* A request without an authenticated creator arrives, and
\* getAuthenticatedCreator, declared to return a Creator, throws.
DeleteUnauthenticated(p) ==
    /\ call.op = "deleteOne" /\ call.d[p].pc = "idle"
    /\ \E id \in ScreenshotIds :
          call' = [call EXCEPT !.d[p] =
                      DeleteThrow(DeleteRequest(0, id), "Unauthenticated")]
    /\ UNCHANGED <<store, translation, req, started, tasks>>

\* A request arrives, getAuthenticatedCreator returns, and findUnique
\* executes: deleteOne throws NotFoundException when no row is found and
\* ForbiddenException when the row is of another creator, and goes on to
\* deleteScreenshot otherwise.  Were getAuthenticatedCreator to return
\* undefined for a request without a creator, reading creator.id would throw
\* a TypeError in the comparison.
DeleteFind(p) ==
    /\ call.op = "deleteOne" /\ call.d[p].pc = "idle"
    /\ \E creatorId \in AuthenticatedCreators : \E id \in ScreenshotIds :
          LET screenshot == FindScreenshot(call.screenshots, id)
              d == [DeleteRequest(creatorId, id)
                        EXCEPT !.screenshot = screenshot]
          IN  call' = [call EXCEPT !.d[p] =
                  IF screenshot = NoScreenshot
                  THEN DeleteThrow(d, "NotFoundException")
                  ELSE IF d.creator.id = 0
                  THEN DeleteThrow(d, "TypeError")
                  ELSE IF NotOwner(screenshot, d.creator)
                  THEN DeleteThrow(d, "ForbiddenException")
                  ELSE [d EXCEPT !.pc = "delete"]]
    /\ UNCHANGED <<store, translation, req, started, tasks>>

\* screenshotService.deleteScreenshot(id) executes: it deletes the row of
\* that id and returns it, or throws when there is no such row any more.
DeleteScreenshot(p) ==
    /\ call.op = "deleteOne" /\ call.d[p].pc = "delete"
    /\ LET d == [call.d[p] EXCEPT !.called = TRUE]
           screenshot == FindScreenshot(call.screenshots, d.id)
       IN  call' = [call EXCEPT
               !.screenshots = @ \ {screenshot},
               !.d[p] = IF screenshot = NoScreenshot
                        THEN DeleteThrow(d, "RecordNotFound")
                        ELSE [d EXCEPT !.pc = "done", !.status = "ok"]]
    /\ UNCHANGED <<store, translation, req, started, tasks>>

NextDelete ==
    \E p \in DeleteProcs :
        \/ DeleteUnauthenticated(p)
        \/ DeleteFind(p)
        \/ DeleteScreenshot(p)

SpecDelete == InitDelete /\ [][NextDelete]_vars

\* The request in slot p carries an authenticated creator.
Authenticated(p) == call.d[p].creator.id # 0

\* The step is the call of deleteScreenshot by the request in slot p.
CallsDeleteScreenshot(p) == ~call.d[p].called /\ call'.d[p].called

\* C33: deleteOne calls deleteScreenshot, and a screenshot is deleted, only
\* for an authenticated request whose creator's id is the creatorId of the
\* screenshot that findUnique returned for the id of the request.  An
\* authenticated request for an id of no screenshot ends with
\* NotFoundException, one for a screenshot of another creator with
\* ForbiddenException, and neither calls deleteScreenshot nor deletes
\* anything.
C33_DeleteOnlyByOwner ==
    /\ [](\A p \in DeleteProcs :
            /\ call.d[p].called =>
                  /\ Authenticated(p)
                  /\ call.d[p].screenshot.id = call.d[p].id
                  /\ call.d[p].screenshot.creatorId = call.d[p].creator.id
            /\ call.d[p].pc = "done" /\ Authenticated(p) =>
                  /\ call.d[p].screenshot = NoScreenshot <=>
                        call.d[p].error = "NotFoundException"
                  /\ call.d[p].screenshot # NoScreenshot
                        /\ call.d[p].screenshot.creatorId # call.d[p].creator.id
                     <=> call.d[p].error = "ForbiddenException"
                  /\ call.d[p].error \in
                        {"NotFoundException", "ForbiddenException"} =>
                            ~call.d[p].called
            /\ call.d[p].pc = "done" /\ ~Authenticated(p) =>
                  call.d[p].status = "error" /\ ~call.d[p].called)
    /\ [][ /\ call'.screenshots \subseteq call.screenshots
           /\ \A s \in call.screenshots \ call'.screenshots :
                 \E p \in DeleteProcs :
                    /\ CallsDeleteScreenshot(p)
                    /\ Authenticated(p)
                    /\ s.id = call.d[p].id
                    /\ s.creatorId = call.d[p].creator.id
           /\ \A p \in DeleteProcs :
                 call.d[p].pc = "idle" /\ call'.d[p].pc = "done" =>
                    call'.screenshots = call.screenshots
         ]_vars

\* One request deleted the screenshot of its creator, another was refused
\* the screenshot of another creator, which is still there.
C33_Witness ==
    \E p \in DeleteProcs : \E q \in DeleteProcs :
        /\ call.d[p].pc = "done" /\ call.d[p].status = "ok"
        /\ call.d[p].called
        /\ call.d[p].screenshot \notin call.screenshots
        /\ call.d[q].pc = "done" /\ call.d[q].error = "ForbiddenException"
        /\ call.d[q].creator.id = call.d[p].creator.id
        /\ call.d[q].screenshot \in call.screenshots

====
